---- MODULE Spec2Model ----
(***************************************************************************)
(* A model of src/ingest.py (RepoIngester and main): the repository loop   *)
(* of ingest_org, the PR-comment miner, the commit-archaeology pass and    *)
(* the env-template / compose parsers, each as a state machine translated  *)
(* from its code.  The GitHub API is the environment: every call that can  *)
(* raise GithubException has a failing branch.                             *)
(***************************************************************************)
EXTENDS Integers, Sequences, FiniteSets, TLC

VARIABLES
    \* ---- main / ingest_org / ingest_repo
    pc,             \* position of main and ingest_org
    token,          \* args.token or GITHUB_TOKEN is set
    repos,          \* list(org.get_repos()): the repository names, in order
    idx,            \* index in repos of the repository of this iteration
    repo_data,      \* the repo_data of this iteration, between ingest_repo and the save
    results,        \* ingest_org's local list `results`
    returned,       \* the list ingest_org returned to main
    written,        \* the <repo-name>.json documents written, in order
    summary,        \* the content of output/summary.json, <<>> while not written
    raised_at,      \* index of the repository whose ingest_repo raised, 0 if none
    \* ---- _mine_pr_comments
    pr_pc,          \* position of _mine_pr_comments
    pr_source,      \* what the pull-request listing of this repository can hold
    pulled,         \* number of pull requests the listing has yielded
    listed_comments,\* number of comments carried by the pull requests yielded
    fetch_failures, \* number of pull requests whose comment fetch raised
    cur,            \* the loop variable pr
    analyzed_count, \* the local analyzed_count
    intelligence,   \* the dict intelligence
    scanned_prs,    \* number of pull requests whose comments were fetched and scanned
    scanned_comments,\* number of comments the inner loop has scanned
    paging_failed,  \* the listing raised GithubException while being iterated
    \* ---- _analyze_commit_patterns
    cm_pc,          \* position of _analyze_commit_patterns
    history,        \* the repository's history: its length and the commits it can hold
    commits_n,      \* len(commits)
    processed,      \* number of commits the loop has been through
    patterns,       \* the dict patterns
    commit_message_lengths, \* the list commit_message_lengths: its sum and length
    cm_raised,      \* the commit listing raised GithubException
    seen,           \* what the commits gone through were: reverts, Fridays, weekend, lengths
    \* ---- _analyze_env_vars and _synthesize_shadow_insights
    env_pc,         \* position of _analyze_env_vars
    env_lists,      \* the lists vars and red_flags
    lines_read,     \* number of lines of the template the loop has been through
    kv_lines,       \* number of them that are non-comment KEY=VALUE lines
    special_lines,  \* number of them that are not the plain KEY=VALUE line
    flag_lines,     \* number of them that are the line API_SECRET_DONT_CHANGE=x
    env_result,     \* the dict _analyze_env_vars returned
    shadow_insights,\* the list _synthesize_shadow_insights returned
    \* ---- _parse_docker_compose
    dc_pc,          \* position of _parse_docker_compose
    file_idx,       \* index in compose_files of the file name being tried
    dc,             \* the locals in_services and services
    dc_lines,       \* number of lines of this file the loop has been through
    dc_result,      \* the dict _parse_docker_compose returned
    \* ---- _parse_makefile
    mk_pc,          \* position of _parse_makefile
    mk,             \* the locals targets, current_target and commands
    mk_lines,       \* the lines of the Makefile the loop has been through
    mk_result,      \* the dict _parse_makefile returned
    mk_insights,    \* the list _synthesize_shadow_insights returned for it
    \* ---- _synthesize_shadow_insights on its own
    sh_pc,          \* position of the call
    sh_conds,       \* which of the seven rule conditions the sub-results satisfy
    shadow_arg,     \* the dict shadow passed in
    sh_insights,    \* the list returned
    \* ---- _analyze_ci_performance
    ci_pc,          \* position of _analyze_ci_performance
    ci_source,      \* what the repository's workflow listing holds
    ci_analysis,    \* the dict ci_analysis
    ci_fetched,     \* per workflow gone through, the runs fetched for it
    ci_idx,         \* number of workflows the insight loop has been through
    \* ---- _detect_code_fear
    fear_pc,        \* position of _detect_code_fear
    fear_source,    \* what the code search holds for the repository
    kw_idx,         \* index in fear_keywords of the keyword of this iteration
    fear,           \* the dict fear
    searched,       \* the keywords a search was issued for, in order
    \* ---- _parse_package_json_scripts
    pkg_pc,         \* position of _parse_package_json_scripts
    pkg_scripts,    \* its local dict `scripts`, as the sequence of its items
    pkg_result      \* the dict it returned

orgVars == <<pc, token, repos, idx, repo_data, results, returned, written, summary, raised_at>>

prVars == <<pr_pc, pr_source, pulled, listed_comments, fetch_failures, cur, analyzed_count,
            intelligence, scanned_prs, scanned_comments, paging_failed>>

commitVars == <<cm_pc, history, commits_n, processed, patterns, commit_message_lengths,
                cm_raised, seen>>

envVars == <<env_pc, env_lists, lines_read, kv_lines, special_lines, flag_lines,
             env_result, shadow_insights>>

composeVars == <<dc_pc, file_idx, dc, dc_lines, dc_result>>

makefileVars == <<mk_pc, mk, mk_lines, mk_result, mk_insights>>

shadowVars == <<sh_pc, sh_conds, shadow_arg, sh_insights>>

ciVars == <<ci_pc, ci_source, ci_analysis, ci_fetched, ci_idx>>

fearVars == <<fear_pc, fear_source, kw_idx, fear, searched>>

packageVars == <<pkg_pc, pkg_scripts, pkg_result>>

notOrg == <<prVars, commitVars, envVars, composeVars, makefileVars, shadowVars, ciVars,
            fearVars, packageVars>>
notPR == <<orgVars, commitVars, envVars, composeVars, makefileVars, shadowVars, ciVars,
           fearVars, packageVars>>
notCommits == <<orgVars, prVars, envVars, composeVars, makefileVars, shadowVars, ciVars,
                fearVars, packageVars>>
notEnv == <<orgVars, prVars, commitVars, composeVars, makefileVars, shadowVars, ciVars,
            fearVars, packageVars>>
notCompose == <<orgVars, prVars, commitVars, envVars, makefileVars, shadowVars, ciVars,
                fearVars, packageVars>>
notMakefile == <<orgVars, prVars, commitVars, envVars, composeVars, shadowVars, ciVars,
                 fearVars, packageVars>>
notShadow == <<orgVars, prVars, commitVars, envVars, composeVars, makefileVars, ciVars,
               fearVars, packageVars>>
notCI == <<orgVars, prVars, commitVars, envVars, composeVars, makefileVars, shadowVars,
           fearVars, packageVars>>
notFear == <<orgVars, prVars, commitVars, envVars, composeVars, makefileVars, shadowVars,
             ciVars, packageVars>>
notPackage == <<orgVars, prVars, commitVars, envVars, composeVars, makefileVars, shadowVars,
                ciVars, fearVars>>

vars == <<orgVars, prVars, commitVars, envVars, composeVars, makefileVars, shadowVars, ciVars,
          fearVars, packageVars>>

(***************************************************************************)
(* Python string operations, on TLA+ strings.                              *)
(***************************************************************************)
Min(a, b) == IF a < b THEN a ELSE b

\* Python: pat in s
Contains(pat, s) ==
    \E i \in 1..(Len(s) - Len(pat) + 1) : SubSeq(s, i, i + Len(pat) - 1) = pat

\* Python: s.startswith(p)
StartsWith(s, p) == Len(p) <= Len(s) /\ SubSeq(s, 1, Len(p)) = p

\* Python: s[:n]
Prefix(s, n) == SubSeq(s, 1, Min(n, Len(s)))

UpperLetters == "ABCDEFGHIJKLMNOPQRSTUVWXYZ"
LowerLetters == "abcdefghijklmnopqrstuvwxyz"

UpperSet == {SubSeq(UpperLetters, i, i) : i \in 1..26}

LowerOf ==
    [c \in UpperSet |->
        LET i == CHOOSE j \in 1..26 : SubSeq(UpperLetters, j, j) = c
        IN  SubSeq(LowerLetters, i, i)]

LowerChar(c) == IF c \in UpperSet THEN LowerOf[c] ELSE c

\* Python: s.lower()  (ASCII), character by character, the string halved
\* at each step
RECURSIVE Lower(_)
Lower(s) ==
    IF Len(s) = 0 THEN ""
    ELSE IF Len(s) = 1 THEN LowerChar(s)
    ELSE LET half == Len(s) \div 2
         IN  Lower(SubSeq(s, 1, half)) \o Lower(SubSeq(s, half + 1, Len(s)))

IsSpace(c) == c \in {" ", "\t", "\n", "\r"}

RECURSIVE LStrip(_)
LStrip(s) ==
    IF Len(s) > 0 /\ IsSpace(SubSeq(s, 1, 1)) THEN LStrip(SubSeq(s, 2, Len(s))) ELSE s

RECURSIVE RStrip(_)
RStrip(s) ==
    IF Len(s) > 0 /\ IsSpace(SubSeq(s, Len(s), Len(s)))
    THEN RStrip(SubSeq(s, 1, Len(s) - 1)) ELSE s

\* Python: s.strip()
Strip(s) == LStrip(RStrip(s))

\* Python: s.split(ch)[0]  (ch one character)
RECURSIVE BeforeFrom(_, _, _)
BeforeFrom(s, ch, i) ==
    IF i > Len(s) \/ SubSeq(s, i, i) = ch THEN SubSeq(s, 1, i - 1)
    ELSE BeforeFrom(s, ch, i + 1)

SplitFirst(s, ch) == BeforeFrom(s, ch, 1)

\* Python: c * n
RECURSIVE Repeat(_, _)
Repeat(c, n) ==
    IF n = 0 THEN ""
    ELSE IF n % 2 = 0 THEN LET half == Repeat(c, n \div 2) IN half \o half
    ELSE c \o Repeat(c, n - 1)

\* Python: any(k in s for k in keywords), keywords a sequence
ContainsAny(keywords, s) == \E k \in 1..Len(keywords) : Contains(keywords[k], s)

(***************************************************************************)
(* main, ingest_org, ingest_repo                                           *)
(***************************************************************************)
MaxRepos == 3

\* The listings org.get_repos() can return: distinct names, any order.
Listings ==
    UNION {{s \in [1..n -> 1..MaxRepos] : \A i, j \in 1..n : i # j => s[i] # s[j]} :
           n \in 0..MaxRepos}

InitOrg ==
    /\ pc = "main"
    /\ token \in BOOLEAN
    /\ repos = <<>>
    /\ idx = 0
    /\ repo_data = <<>>
    /\ results = <<>>
    /\ returned = <<>>
    /\ written = <<>>
    /\ summary = <<>>
    /\ raised_at = 0

IdleOrg ==
    /\ pc = "idle"
    /\ token = TRUE
    /\ repos = <<>>
    /\ idx = 0
    /\ repo_data = <<>>
    /\ results = <<>>
    /\ returned = <<>>
    /\ written = <<>>
    /\ summary = <<>>
    /\ raised_at = 0

\* main, up to the call of ingest_org: without a token it prints and returns.
MainStart ==
    /\ pc = "main"
    /\ pc' = IF token THEN "get_org" ELSE "exit"
    /\ UNCHANGED notOrg
    /\ UNCHANGED <<token, repos, idx, repo_data, results, returned, written, summary, raised_at>>

\* get_organization and list(org.get_repos()) succeed.
GetOrgOk ==
    /\ pc = "get_org"
    /\ \E l \in Listings : repos' = l
    /\ results' = <<>>
    /\ idx' = 1
    /\ pc' = "loop"
    /\ UNCHANGED notOrg
    /\ UNCHANGED <<token, repo_data, returned, written, summary, raised_at>>

\* get_organization or the listing raises GithubException: except, return [].
GetOrgFailsReturnsPlaceholder ==
    /\ pc = "get_org"
    /\ returned' = <<[metadata |-> [name |-> 0], partial |-> TRUE]>>
    /\ pc' = "summary"
    /\ UNCHANGED notOrg
    /\ UNCHANGED <<token, repos, idx, repo_data, results, written, summary, raised_at>>

GetOrgFails ==
    /\ pc = "get_org"
    /\ returned' = <<>>
    /\ pc' = "summary"
    /\ UNCHANGED notOrg
    /\ UNCHANGED <<token, repos, idx, repo_data, results, written, summary, raised_at>>

\* ingest_repo(repo) returns: metadata was read, and each sub-extractor (files,
\* structure, pr_intelligence, ..., ci_analysis) either had its data or caught
\* its own GithubException and degraded to an empty result (partial).
IngestRepoReturns ==
    /\ pc = "loop"
    /\ idx <= Len(repos)
    /\ \E partial \in BOOLEAN :
         repo_data' = [metadata |-> [name |-> repos[idx]], partial |-> partial]
    /\ results' = Append(results, repo_data')
    /\ pc' = "save"
    /\ UNCHANGED notOrg
    /\ UNCHANGED <<token, repos, idx, returned, written, summary, raised_at>>

\* _get_repo_metadata calls repo.get_topics() outside any try: its
\* GithubException leaves ingest_repo and the for loop and is caught by the
\* except of ingest_org, which returns [].
IngestRepoRaises ==
    /\ pc = "loop"
    /\ idx <= Len(repos)
    /\ raised_at' = idx
    /\ returned' = <<>>
    /\ pc' = "summary"
    /\ UNCHANGED notOrg
    /\ UNCHANGED <<token, repos, idx, repo_data, results, written, summary>>

\* _save_repo_output(repo.name, repo_data), and the loop moves on.
SaveRepoOutput ==
    /\ pc = "save"
    /\ written' = Append(written, repos[idx])
    /\ idx' = idx + 1
    /\ repo_data' = <<>>
    /\ pc' = "loop"
    /\ UNCHANGED notOrg
    /\ UNCHANGED <<token, repos, results, returned, summary, raised_at>>

\* The loop is exhausted: return results.
ReturnResults ==
    /\ pc = "loop"
    /\ idx > Len(repos)
    /\ returned' = results
    /\ pc' = "summary"
    /\ UNCHANGED notOrg
    /\ UNCHANGED <<token, repos, idx, repo_data, results, written, summary, raised_at>>

\* main builds the summary from the returned list and writes summary.json.
BuildSummary(res) ==
    [repos_ingested |-> Len(res),
     repos |-> [i \in 1..Len(res) |-> res[i].metadata.name]]

WriteSummary ==
    /\ pc = "summary"
    /\ summary' = BuildSummary(returned)
    /\ pc' = "done"
    /\ UNCHANGED notOrg
    /\ UNCHANGED <<token, repos, idx, repo_data, results, returned, written, raised_at>>

NextOrg ==
    \/ MainStart
    \/ GetOrgOk
    \/ GetOrgFails
    \/ IngestRepoReturns
    \/ IngestRepoRaises
    \/ SaveRepoOutput
    \/ ReturnResults
    \/ WriteSummary

(***************************************************************************)
(* _mine_pr_comments                                                       *)
(***************************************************************************)
PR_LIMIT == 100
SNIPPET_LEN == 200
TOP_TOPICS == 10

MaxPRs == 3              \* length of a listing whose comments vary
MaxOverLimit == 2        \* pull requests a long listing holds beyond PR_LIMIT
MaxTotalComments == 2    \* comments carried by the pull requests of one listing
MaxFetchFailures == 2    \* pull requests of one listing whose comment fetch raises
MaxTopicComments == 5    \* comments of the one pull request of a many-topic listing

confusion_patterns ==
    <<"how does", "why does", "what is", "what does", "confused", "unclear",
      "not sure", "don't understand", "can you explain", "what's the difference">>

debt_patterns ==
    <<"should probably", "we should", "todo", "fixme", "hack", "workaround",
      "technical debt", "tech debt", "will fix later", "temporary", "quick fix">>

fragility_patterns ==
    <<"breaks", "breaks when", "fails", "doesn't work", "broken", "regression",
      "flaky", "intermittent", "sometimes fails", "race condition">>

Categories == {"confusion_signals", "tech_debt_acknowledgments", "fragility_mentions"}

PatternsOf(cat) ==
    CASE cat = "confusion_signals" -> confusion_patterns
      [] cat = "tech_debt_acknowledgments" -> debt_patterns
      [] cat = "fragility_mentions" -> fragility_patterns

\* Comments as the API returns them: body is None (has_body FALSE) or a string.
NullComment == [has_body |-> FALSE, body |-> ""]
PlainComment == [has_body |-> TRUE, body |-> "LGTM"]
ConfusedComment == [has_body |-> TRUE, body |-> "I'm CONFUSED: why does this work?"]
DebtComment == [has_body |-> TRUE, body |-> "TODO: this breaks when empty"]

RichSource == [max_prs |-> MaxPRs, max_comments |-> MaxTotalComments,
               comments |-> {NullComment, PlainComment, ConfusedComment, DebtComment}]
LongSource == [max_prs |-> PR_LIMIT + MaxOverLimit, max_comments |-> MaxTotalComments,
               comments |-> {PlainComment}]

\* Comments around the snippet length: longer than it, exactly as long, and
\* longer with the trigger phrase beyond it.
LongDebtComment == [has_body |-> TRUE, body |-> "FIXME " \o Repeat("x", SNIPPET_LEN)]
FullLengthComment == [has_body |-> TRUE, body |-> Repeat("y", SNIPPET_LEN - 4) \o "hack"]
LateTriggerComment == [has_body |-> TRUE, body |-> Repeat("z", SNIPPET_LEN) \o " flaky"]

VerboseSource ==
    [max_prs |-> 1, max_comments |-> MaxTotalComments,
     comments |-> {LongDebtComment, FullLengthComment, LateTriggerComment}]

\* Comments that each match one pattern of every category, twelve distinct
\* patterns in all: more than common_discussion_topics keeps.
HowDoesComment == [has_body |-> TRUE, body |-> "How does it go? TODO: fails"]
WhyDoesComment == [has_body |-> TRUE, body |-> "why does this hack look broken"]
WhatIsComment == [has_body |-> TRUE, body |-> "what is it: a workaround, a regression"]
UnclearComment == [has_body |-> TRUE, body |-> "unclear, temporary, flaky"]

TopicSource ==
    [max_prs |-> 1, max_comments |-> MaxTopicComments,
     comments |-> {HowDoesComment, WhyDoesComment, WhatIsComment, UnclearComment}]

CommentSeqs(src, n) == UNION {[1..k -> src.comments] : k \in 0..n}

CommentLists(src, budget) ==
    UNION {[issue_comments : [1..i -> src.comments],
            review_comments : CommentSeqs(src, budget - i)] : i \in 0..budget}

\* The pull requests the listing can yield next.  fails says which of the two
\* comment fetches raises: "issue" (get_issue_comments) or "review" (get_comments).
PullRequests(src, number, budget, may_fail) ==
    {p \in {[number |-> number, title |-> "t", issue_comments |-> c.issue_comments,
             review_comments |-> c.review_comments, fails |-> f] :
                c \in CommentLists(src, budget), f \in {"none", "issue", "review"}} :
        /\ p.fails = "issue" => (p.issue_comments = <<>> /\ p.review_comments = <<>>)
        /\ p.fails = "review" => p.review_comments = <<>>
        /\ p.fails # "none" => may_fail}

NoPR == [number |-> 0, title |-> "", issue_comments |-> <<>>, review_comments |-> <<>>,
         fails |-> "none"]

NewIntelligence ==
    [confusion_signals |-> <<>>,
     tech_debt_acknowledgments |-> <<>>,
     fragility_mentions |-> <<>>,
     common_discussion_topics |-> <<>>,
     total_prs_analyzed |-> 0,
     total_comments_analyzed |-> 0]

\* body = comment.body.lower() if comment.body else ""
BodyOf(comment) ==
    IF comment.has_body /\ comment.body # "" THEN Lower(comment.body) ELSE ""

\* for pattern in patterns: if pattern in body: ...; break
\* The index of the pattern the loop stops at, 0 if it runs to the end.
RECURSIVE FirstMatchFrom(_, _, _)
FirstMatchFrom(phrases, body, k) ==
    IF k > Len(phrases) THEN 0
    ELSE IF Contains(phrases[k], body) THEN k
    ELSE FirstMatchFrom(phrases, body, k + 1)

LastMatch(phrases, body) ==
    IF \E k \in 1..Len(phrases) : Contains(phrases[k], body)
    THEN CHOOSE k \in 1..Len(phrases) :
            /\ Contains(phrases[k], body)
            /\ \A j \in (k + 1)..Len(phrases) : ~Contains(phrases[j], body)
    ELSE 0

FirstMatch(phrases, body) == FirstMatchFrom(phrases, body, 1)

\* One of the three pattern loops over one comment.
ScanCategoryWholeBody(signals, phrases, pr, body) ==
    LET k == FirstMatch(phrases, body)
    IN  IF k = 0 THEN signals
        ELSE Append(signals, [pr |-> pr.number, pr_title |-> pr.title,
                              pattern |-> phrases[k], snippet |-> body])

ScanCategory(signals, phrases, pr, body) ==
    LET k == FirstMatch(phrases, body)
    IN  IF k = 0 THEN signals
        ELSE Append(signals, [pr |-> pr.number, pr_title |-> pr.title,
                              pattern |-> phrases[k],
                              snippet |-> Prefix(body, SNIPPET_LEN)])

\* The body of `for comment in comments`.
ScanComment(intel, pr, comment) ==
    LET body == BodyOf(comment)
    IN  [intel EXCEPT
           !.confusion_signals = ScanCategory(@, confusion_patterns, pr, body),
           !.tech_debt_acknowledgments = ScanCategory(@, debt_patterns, pr, body),
           !.fragility_mentions = ScanCategory(@, fragility_patterns, pr, body)]

RECURSIVE ScanComments(_, _, _, _)
ScanComments(intel, pr, comments, i) ==
    IF i > Len(comments) THEN intel
    ELSE ScanComments(ScanComment(intel, pr, comments[i]), pr, comments, i + 1)

\* pattern_counts: the distinct patterns of the signals, in order of first
\* occurrence (dict insertion order), each with its count.
RECURSIVE PatternCounts(_, _, _)
PatternCounts(signals, i, acc) ==
    IF i > Len(signals) THEN acc
    ELSE LET p == signals[i].pattern
         IN  IF \E k \in 1..Len(acc) : acc[k].pattern = p
             THEN PatternCounts(signals, i + 1,
                    [k \in 1..Len(acc) |->
                        IF acc[k].pattern = p
                        THEN [pattern |-> p, count |-> acc[k].count + 1]
                        ELSE acc[k]])
             ELSE PatternCounts(signals, i + 1, Append(acc, [pattern |-> p, count |-> 1]))

\* sorted(..., key=count, reverse=True): stable, equal counts keep their order.
InsertByCount(sorted, e) ==
    LET n == Cardinality({k \in 1..Len(sorted) : sorted[k].count >= e.count})
    IN  SubSeq(sorted, 1, n) \o <<e>> \o SubSeq(sorted, n + 1, Len(sorted))

RECURSIVE SortByCountDesc(_, _, _)
SortByCountDesc(items, i, acc) ==
    IF i > Len(items) THEN acc
    ELSE SortByCountDesc(items, i + 1, InsertByCount(acc, items[i]))

\* The ten entries taken before the sort instead of after it.
CommonTopicsTruncatedFirst(intel) ==
    LET all_signals == intel.confusion_signals \o intel.tech_debt_acknowledgments
                         \o intel.fragility_mentions
        counts == PatternCounts(all_signals, 1, <<>>)
    IN  SortByCountDesc(Prefix(counts, TOP_TOPICS), 1, <<>>)

CommonTopics(intel) ==
    LET all_signals == intel.confusion_signals \o intel.tech_debt_acknowledgments
                         \o intel.fragility_mentions
        counts == PatternCounts(all_signals, 1, <<>>)
    IN  Prefix(SortByCountDesc(counts, 1, <<>>), TOP_TOPICS)

InitPR(sources) ==
    /\ pr_pc = "start"
    /\ pr_source \in sources
    /\ pulled = 0
    /\ listed_comments = 0
    /\ fetch_failures = 0
    /\ cur = NoPR
    /\ analyzed_count = 0
    /\ intelligence = NewIntelligence
    /\ scanned_prs = 0
    /\ scanned_comments = 0
    /\ paging_failed = FALSE

IdlePR ==
    /\ pr_pc = "idle"
    /\ pr_source = RichSource
    /\ pulled = 0
    /\ listed_comments = 0
    /\ fetch_failures = 0
    /\ cur = NoPR
    /\ analyzed_count = 0
    /\ intelligence = NewIntelligence
    /\ scanned_prs = 0
    /\ scanned_comments = 0
    /\ paging_failed = FALSE

\* pulls = repo.get_pulls(...); analyzed_count = 0.  The listing is lazy: the
\* call itself fetches nothing.
GetPulls ==
    /\ pr_pc = "start"
    /\ analyzed_count' = 0
    /\ pr_pc' = "iter"
    /\ UNCHANGED notPR
    /\ UNCHANGED <<pr_source, pulled, listed_comments, fetch_failures, cur, intelligence,
                   scanned_prs, scanned_comments, paging_failed>>

\* The listing yields its next pull request; the loop body starts with the
\* limit check, and counts the pull request when it passes.
PullsYield ==
    /\ pr_pc = "iter"
    /\ pulled < pr_source.max_prs
    /\ \E pr \in PullRequests(pr_source, pulled + 1, pr_source.max_comments - listed_comments,
                              fetch_failures < MaxFetchFailures) :
         /\ cur' = pr
         /\ listed_comments' =
                listed_comments + Len(pr.issue_comments) + Len(pr.review_comments)
    /\ pulled' = pulled + 1
    /\ IF analyzed_count >= PR_LIMIT
       THEN /\ pr_pc' = "aggregate"
            /\ UNCHANGED analyzed_count
       ELSE /\ pr_pc' = "body"
            /\ analyzed_count' = analyzed_count + 1
    /\ UNCHANGED notPR
    /\ UNCHANGED <<pr_source, fetch_failures, intelligence, scanned_prs, scanned_comments,
                   paging_failed>>

\* The listing is exhausted.
PullsEnd ==
    /\ pr_pc = "iter"
    /\ pr_pc' = "aggregate"
    /\ UNCHANGED notPR
    /\ UNCHANGED <<pr_source, pulled, listed_comments, fetch_failures, cur, analyzed_count,
                   intelligence, scanned_prs, scanned_comments, paging_failed>>

\* Fetching the next page of the listing raises GithubException: the outer
\* except prints and the function returns intelligence as it stands.  (Where
\* the page boundaries fall is the API client's business.)
PullsRaise ==
    /\ pr_pc = "iter"
    /\ pulled < pr_source.max_prs
    /\ paging_failed' = TRUE
    /\ pr_pc' = "returned"
    /\ UNCHANGED notPR
    /\ UNCHANGED <<pr_source, pulled, listed_comments, fetch_failures, cur, analyzed_count,
                   intelligence, scanned_prs, scanned_comments>>

\* The inner try: both comment lists are fetched, counted and scanned.
ScanPR ==
    /\ pr_pc = "body"
    /\ cur.fails = "none"
    /\ LET comments == cur.issue_comments \o cur.review_comments
           counted == [intelligence EXCEPT
                         !.total_comments_analyzed = @ + Len(comments)]
       IN  /\ intelligence' = ScanComments(counted, cur, comments, 1)
           /\ scanned_comments' = scanned_comments + Len(comments)
    /\ scanned_prs' = scanned_prs + 1
    /\ pr_pc' = "iter"
    /\ UNCHANGED notPR
    /\ UNCHANGED <<pr_source, pulled, listed_comments, fetch_failures, cur, analyzed_count,
                   paging_failed>>

\* The inner try: one of the two fetches raises GithubException; continue.
SkipPR ==
    /\ pr_pc = "body"
    /\ cur.fails # "none"
    /\ fetch_failures' = fetch_failures + 1
    /\ pr_pc' = "iter"
    /\ UNCHANGED notPR
    /\ UNCHANGED <<pr_source, pulled, listed_comments, cur, analyzed_count, intelligence,
                   scanned_prs, scanned_comments, paging_failed>>

\* After the loop: the PR counter and the topic table are set, and the
\* function returns.
Aggregate ==
    /\ pr_pc = "aggregate"
    /\ intelligence' = [intelligence EXCEPT
                          !.total_prs_analyzed = analyzed_count,
                          !.common_discussion_topics = CommonTopics(intelligence)]
    /\ pr_pc' = "returned"
    /\ UNCHANGED notPR
    /\ UNCHANGED <<pr_source, pulled, listed_comments, fetch_failures, cur, analyzed_count,
                   scanned_prs, scanned_comments, paging_failed>>

NextPR ==
    \/ GetPulls
    \/ PullsYield
    \/ PullsEnd
    \/ PullsRaise
    \/ ScanPR
    \/ SkipPR
    \/ Aggregate

(***************************************************************************)
(* _analyze_commit_patterns                                                *)
(***************************************************************************)
COMMIT_LIMIT == 200
REVERT_MSG_LEN == 100
SHA_LEN == 7

MaxCommits == 20         \* length of a history whose commits vary in weekday and length

revert_keywords == <<"revert", "rollback", "roll back">>

\* Commits as the API returns them (author time given as weekday name, hour
\* and ISO string).
MondayCommit ==
    [sha |-> "1a2b3c4d5e", weekday |-> "Monday", hour |-> 10,
     date |-> "2024-03-04T10:00:00", message |-> "Add retry logic to uploader"]
TuesdayCommit ==
    [sha |-> "6f7a8b9c0d", weekday |-> "Tuesday", hour |-> 11,
     date |-> "2024-03-05T11:00:00", message |-> "wip"]
FridayCommit ==
    [sha |-> "2b3c4d5e6f", weekday |-> "Friday", hour |-> 16,
     date |-> "2024-03-08T16:00:00", message |-> "Fix typo"]
SaturdayRevert ==
    [sha |-> "3c4d5e6f7a", weekday |-> "Saturday", hour |-> 23,
     date |-> "2024-03-09T23:00:00",
     message |-> "Revert \"Add retry\"\n\nThis reverts 1a2b3c4."]
SundayCommit ==
    [sha |-> "4d5e6f7a8b", weekday |-> "Sunday", hour |-> 9,
     date |-> "2024-03-10T09:00:00", message |-> "Hotfix prod"]
TuesdayRollback ==
    [sha |-> "5e6f7a8b9c", weekday |-> "Tuesday", hour |-> 14,
     date |-> "2024-03-05T14:00:00", message |-> "Rollback the schema migration"]

\* The histories analysed: short ones over five kinds of commit, and long
\* ones (around the revert-rate boundary and the 200-commit limit) over two.
ShortHistories ==
    {[length |-> n,
      kinds |-> {MondayCommit, TuesdayCommit, FridayCommit, SaturdayRevert, SundayCommit}] :
        n \in (0..3) \cup {7, 13, MaxCommits}}
LongHistories ==
    {[length |-> n, kinds |-> {MondayCommit, TuesdayRollback}] :
        n \in {33, 34, 100, COMMIT_LIMIT, COMMIT_LIMIT + 1}}

NewPatterns ==
    [total_commits |-> 0,
     commit_times |-> [weekday |-> <<>>, hour |-> <<>>],
     revert_commits |-> <<>>,
     friday_deploys |-> 0,
     weekend_activity |-> 0,
     avg_commit_message_length |-> [num |-> 0, den |-> 1],
     insights |-> <<>>]

Digits == "0123456789"

\* Python: str(n), n >= 0
RECURSIVE Str(_)
Str(n) ==
    IF n < 10 THEN SubSeq(Digits, n + 1, n + 1)
    ELSE Str(n \div 10) \o SubSeq(Digits, (n % 10) + 1, (n % 10) + 1)

\* d[k] = d.get(k, 0) + 1, a dict as a function on its keys
Increment(d, k) ==
    IF k \in DOMAIN d THEN [d EXCEPT ![k] = @ + 1]
    ELSE [x \in DOMAIN d \cup {k} |-> IF x = k THEN 1 ELSE d[x]]

\* any(keyword in message for keyword in ['revert', 'rollback', 'roll back'])
IsRevert(message) == ContainsAny(revert_keywords, Lower(message))

\* The body of `for commit in commits`.
ProcessOne(p, commit) ==
    LET timed == [p EXCEPT
                    !.commit_times.weekday = Increment(@, commit.weekday),
                    !.commit_times.hour = Increment(@, Str(commit.hour)),
                    !.friday_deploys = IF commit.weekday = "Friday" THEN @ + 1 ELSE @,
                    !.weekend_activity =
                        IF commit.weekday \in {"Saturday", "Sunday"} THEN @ + 1 ELSE @]
    IN  IF IsRevert(commit.message)
        THEN [timed EXCEPT !.revert_commits =
                Append(@, [sha |-> Prefix(commit.sha, SHA_LEN),
                           message |-> Prefix(SplitFirst(commit.message, "\n"),
                                              REVERT_MSG_LEN),
                           date |-> commit.date])]
        ELSE timed

\* The comparisons of the ratios with 0.03, 0.05, 0.15 and of the mean with 20
\* are made on floats in the code; for counts up to 201 the float quotients
\* compare with the float literals exactly as the fractions compare with
\* 3/100, 5/100, 15/100 and 20, which is how they are computed here.
\* A ratio is `count / len(commits) if commits else 0`.
RevertRateHighInclusive(reverts, total) == total > 0 /\ 100 * reverts >= 3 * total
RevertRateHigh(reverts, total) == total > 0 /\ 100 * reverts > 3 * total

FridayRatioLow(fridays, total) == total = 0 \/ 100 * fridays < 5 * total

WeekendRatioHighInclusive(weekend, total) == total > 0 /\ 100 * weekend >= 15 * total
WeekendRatioHigh(weekend, total) == total > 0 /\ 100 * weekend > 15 * total

MeanLengthShort(avg) == avg.num < 20 * avg.den

Insight(category, issue, severity) ==
    [category |-> category, issue |-> issue, severity |-> severity]

\* "Generate insights": four independent ifs, in this order.
CommitInsights(p, total) ==
    (IF RevertRateHigh(Len(p.revert_commits), total)
     THEN <<Insight("stability", "high_revert_rate", "high")>> ELSE <<>>) \o
    (IF FridayRatioLow(p.friday_deploys, total)
     THEN <<Insight("culture", "friday_deploy_avoidance", "medium")>> ELSE <<>>) \o
    (IF WeekendRatioHigh(p.weekend_activity, total)
     THEN <<Insight("culture", "weekend_work", "medium")>> ELSE <<>>) \o
    (IF MeanLengthShort(p.avg_commit_message_length)
     THEN <<Insight("process", "poor_commit_messages", "low")>> ELSE <<>>)

RevertKinds == {SaturdayRevert, TuesdayRollback}

NothingSeen == [reverts |-> 0, fridays |-> 0, weekend |-> 0, length_sum |-> 0]

See(sn, commit) ==
    [reverts |-> sn.reverts + (IF commit \in RevertKinds THEN 1 ELSE 0),
     fridays |-> sn.fridays + (IF commit = FridayCommit THEN 1 ELSE 0),
     weekend |-> sn.weekend + (IF commit \in {SaturdayRevert, SundayCommit} THEN 1 ELSE 0),
     length_sum |-> sn.length_sum + Len(commit.message)]

InitCommits(histories) ==
    /\ cm_pc = "start"
    /\ history \in histories
    /\ commits_n = 0
    /\ processed = 0
    /\ patterns = NewPatterns
    /\ commit_message_lengths = [sum |-> 0, n |-> 0]
    /\ cm_raised = FALSE
    /\ seen = NothingSeen

IdleCommits ==
    /\ cm_pc = "idle"
    /\ history = [length |-> 0, kinds |-> {}]
    /\ commits_n = 0
    /\ processed = 0
    /\ patterns = NewPatterns
    /\ commit_message_lengths = [sum |-> 0, n |-> 0]
    /\ cm_raised = FALSE
    /\ seen = NothingSeen

\* if len(commits) == 0: return patterns
AfterFetchNoEarlyReturn(n) == "loop"
AfterFetch(n) == IF n = 0 THEN "returned" ELSE "loop"

\* commits = list(repo.get_commits()[:200]); total_commits = len(commits);
\* with no commits the function returns at once.
FetchCommits ==
    /\ cm_pc = "start"
    /\ commits_n' = Min(history.length, COMMIT_LIMIT)
    /\ patterns' = [patterns EXCEPT !.total_commits = commits_n']
    /\ cm_pc' = AfterFetch(commits_n')
    /\ UNCHANGED notCommits
    /\ UNCHANGED <<history, processed, commit_message_lengths, cm_raised, seen>>

\* The listing raises GithubException (e.g. an empty repository): the except
\* prints and the function returns patterns as initialised.
FetchCommitsRaises ==
    /\ cm_pc = "start"
    /\ cm_pc' = "returned"
    /\ cm_raised' = TRUE
    /\ UNCHANGED notCommits
    /\ UNCHANGED <<history, commits_n, processed, patterns, commit_message_lengths, seen>>

\* One iteration of the loop over the commits.
ProcessCommit ==
    /\ cm_pc = "loop"
    /\ processed < commits_n
    /\ \E commit \in history.kinds :
         /\ patterns' = ProcessOne(patterns, commit)
         /\ commit_message_lengths' =
                [sum |-> commit_message_lengths.sum + Len(commit.message),
                 n |-> commit_message_lengths.n + 1]
         /\ seen' = See(seen, commit)
    /\ processed' = processed + 1
    /\ UNCHANGED notCommits
    /\ UNCHANGED <<cm_pc, history, commits_n, cm_raised>>

\* An attribute of the commit of this iteration is not loaded yet and its fetch
\* (commit.commit, line 802) raises GithubException: the except prints and the
\* function returns patterns as the earlier iterations left it.
ProcessCommitRaises ==
    /\ cm_pc = "loop"
    /\ processed < commits_n
    /\ cm_pc' = "returned"
    /\ cm_raised' = TRUE
    /\ UNCHANGED notCommits
    /\ UNCHANGED <<history, commits_n, processed, patterns, commit_message_lengths, seen>>

\* After the loop: the mean, the insights, return.
FinishCommits ==
    /\ cm_pc = "loop"
    /\ processed = commits_n
    /\ LET averaged ==
             IF commit_message_lengths.n > 0
             THEN [patterns EXCEPT !.avg_commit_message_length =
                     [num |-> commit_message_lengths.sum, den |-> commit_message_lengths.n]]
             ELSE patterns
       IN  patterns' = [averaged EXCEPT !.insights = CommitInsights(averaged, commits_n)]
    /\ cm_pc' = "returned"
    /\ UNCHANGED notCommits
    /\ UNCHANGED <<history, commits_n, processed, commit_message_lengths, cm_raised, seen>>

NextCommits ==
    \/ FetchCommits
    \/ FetchCommitsRaises
    \/ ProcessCommit
    \/ ProcessCommitRaises
    \/ FinishCommits

(***************************************************************************)
(* _synthesize_shadow_insights                                             *)
(***************************************************************************)
\* Python: d.get(k, default), a dict as a function on its keys
Get(d, k, default) == IF k \in DOMAIN d THEN d[k] ELSE default

\* Python: ', '.join(names)
RECURSIVE JoinFrom(_, _)
JoinFrom(names, i) ==
    IF i > Len(names) THEN ""
    ELSE IF i = Len(names) THEN names[i]
    ELSE names[i] \o ", " \o JoinFrom(names, i + 1)

Join(names) == JoinFrom(names, 1)

ShadowInsight(category, issue, severity, description) ==
    [category |-> category, issue |-> issue, severity |-> severity,
     description |-> description]

COMPLEX_LOCAL_DEV_OVER == 3

\* Seven independent ifs, in this order.
SynthesizeShadowInsightsElif(shadow) ==
    (IF Get(shadow.makefile_targets, "has_deploy_target", FALSE)
     THEN <<ShadowInsight("deployment", "manual_deployment_detected", "medium",
              "Makefile contains deploy target, suggesting manual deployments")>>
     ELSE <<>>) \o
    (IF Get(shadow.npm_scripts, "has_fast_test", FALSE)
     THEN <<ShadowInsight("testing", "slow_tests", "medium",
              "Fast test variant exists, indicating regular tests are too slow")>>
     ELSE <<>>) \o
    (IF Get(shadow.npm_scripts, "postinstall_hook", FALSE)
     THEN <<ShadowInsight("dependencies", "postinstall_patches", "high",
              "postinstall hook detected, likely patching dependencies")>>
     ELSE <<>>) \o
    (IF Get(shadow.env_complexity, "complexity", "") = "high"
     THEN <<ShadowInsight("configuration", "high_config_complexity", "medium",
              Str(Get(shadow.env_complexity, "total_vars", 0))
                \o " environment variables required")>>
     ELSE <<>>) \o
    (IF /\ Get(shadow.env_complexity, "complexity", "") # "high"
        /\ Get(shadow.env_complexity, "red_flags", <<>>) # <<>>
     THEN <<ShadowInsight("configuration", "config_red_flags", "high",
              "Suspicious env vars: " \o Join(shadow.env_complexity.red_flags))>>
     ELSE <<>>) \o
    (IF Get(shadow.workaround_scripts, "count", 0) > 0
     THEN <<ShadowInsight("process", "workaround_scripts_found", "medium",
              Str(shadow.workaround_scripts.count) \o " workaround scripts detected")>>
     ELSE <<>>) \o
    (IF Get(shadow.docker_compose_stack, "service_count", 0) > COMPLEX_LOCAL_DEV_OVER
     THEN <<ShadowInsight("developer_experience", "complex_local_dev", "medium",
              Str(shadow.docker_compose_stack.service_count)
                \o " services required for local development")>>
     ELSE <<>>)

SynthesizeShadowInsights(shadow) ==
    (IF Get(shadow.makefile_targets, "has_deploy_target", FALSE)
     THEN <<ShadowInsight("deployment", "manual_deployment_detected", "medium",
              "Makefile contains deploy target, suggesting manual deployments")>>
     ELSE <<>>) \o
    (IF Get(shadow.npm_scripts, "has_fast_test", FALSE)
     THEN <<ShadowInsight("testing", "slow_tests", "medium",
              "Fast test variant exists, indicating regular tests are too slow")>>
     ELSE <<>>) \o
    (IF Get(shadow.npm_scripts, "postinstall_hook", FALSE)
     THEN <<ShadowInsight("dependencies", "postinstall_patches", "high",
              "postinstall hook detected, likely patching dependencies")>>
     ELSE <<>>) \o
    (IF Get(shadow.env_complexity, "complexity", "") = "high"
     THEN <<ShadowInsight("configuration", "high_config_complexity", "medium",
              Str(Get(shadow.env_complexity, "total_vars", 0))
                \o " environment variables required")>>
     ELSE <<>>) \o
    (IF Get(shadow.env_complexity, "red_flags", <<>>) # <<>>
     THEN <<ShadowInsight("configuration", "config_red_flags", "high",
              "Suspicious env vars: " \o Join(shadow.env_complexity.red_flags))>>
     ELSE <<>>) \o
    (IF Get(shadow.workaround_scripts, "count", 0) > 0
     THEN <<ShadowInsight("process", "workaround_scripts_found", "medium",
              Str(shadow.workaround_scripts.count) \o " workaround scripts detected")>>
     ELSE <<>>) \o
    (IF Get(shadow.docker_compose_stack, "service_count", 0) > COMPLEX_LOCAL_DEV_OVER
     THEN <<ShadowInsight("developer_experience", "complex_local_dev", "medium",
              Str(shadow.docker_compose_stack.service_count)
                \o " services required for local development")>>
     ELSE <<>>)

\* The sub-results of a repository that has none of the files.
NoMakefile == [exists |-> FALSE]
NoPackageJson == [exists |-> FALSE]
NoEnvFile == [exists |-> FALSE]
NoWorkarounds == [found |-> FALSE, count |-> 0, scripts |-> <<>>]
NoCompose ==
    [exists |-> FALSE, services |-> <<>>, service_count |-> 0, has_database |-> FALSE,
     has_cache |-> FALSE, has_queue |-> FALSE, complexity |-> "low"]

(***************************************************************************)
(* _analyze_env_vars                                                       *)
(***************************************************************************)
ENV_LOW_BELOW == 5
ENV_MEDIUM_BELOW == 15

MaxEnvLines == 16        \* lines of the env template
MaxSpecialLines == 2     \* its KEY=VALUE lines other than the plain one

red_flag_words == <<"magic", "dont_change", "do_not", "legacy", "hack", "temp">>

env_categories ==
    [database |-> <<"database", "db_", "postgres", "mysql", "mongo">>,
     cache |-> <<"redis", "cache", "memcache">>,
     cloud |-> <<"aws", "gcp", "azure", "s3", "bucket">>,
     auth |-> <<"auth", "secret", "key", "token">>,
     observability |-> <<"sentry", "datadog", "newrelic", "log">>,
     feature_flags |-> <<"enable", "feature", "flag">>]

\* Lines of an env template.
PlainLine == "PORT=8080"
SpacedLine == "  LOG_LEVEL = debug "
RedFlagLine == "API_SECRET_DONT_CHANGE=x"
CommentLine == "# DB_HOST=localhost"
BlankLine == ""
SectionLine == "[defaults]"

SpecialLines == {SpacedLine, RedFlagLine}
KeyValueLines == {PlainLine} \cup SpecialLines
OtherLines == {CommentLine, BlankLine, SectionLine}

\* The body of `for line in lines`: the lists vars and red_flags after it.
ReadEnvLineCaseSensitive(lists, raw) ==
    LET line == Strip(raw)
    IN  IF line # "" /\ ~StartsWith(line, "#") /\ Contains("=", line)
        THEN LET var_name == Strip(SplitFirst(line, "="))
             IN  [vars |-> Append(lists.vars, var_name),
                  red_flags |->
                     IF ContainsAny(red_flag_words, var_name)
                     THEN Append(lists.red_flags, var_name)
                     ELSE lists.red_flags]
        ELSE lists

ReadEnvLine(lists, raw) ==
    LET line == Strip(raw)
    IN  IF line # "" /\ ~StartsWith(line, "#") /\ Contains("=", line)
        THEN LET var_name == Strip(SplitFirst(line, "="))
             IN  [vars |-> Append(lists.vars, var_name),
                  red_flags |->
                     IF ContainsAny(red_flag_words, Lower(var_name))
                     THEN Append(lists.red_flags, var_name)
                     ELSE lists.red_flags]
        ELSE lists

\* len([v for v in vars if any(w in v.lower() for w in words)])
CountMatching(names, words) ==
    Cardinality({i \in 1..Len(names) : ContainsAny(words, Lower(names[i]))})

\* complexity = 'low' if len(vars) < 5 else 'medium' if len(vars) < 15 else 'high'
EnvComplexityInclusive(n) ==
    IF n <= ENV_LOW_BELOW THEN "low" ELSE IF n <= ENV_MEDIUM_BELOW THEN "medium" ELSE "high"

EnvComplexity(n) ==
    IF n < ENV_LOW_BELOW THEN "low" ELSE IF n < ENV_MEDIUM_BELOW THEN "medium" ELSE "high"

EnvResult(lists) ==
    [exists |-> TRUE,
     total_vars |-> Len(lists.vars),
     variables |-> lists.vars,
     categories |-> [c \in DOMAIN env_categories |->
                        CountMatching(lists.vars, env_categories[c])],
     red_flags |-> lists.red_flags,
     complexity |-> EnvComplexity(Len(lists.vars))]

InitEnv ==
    /\ env_pc = "start"
    /\ env_lists = [vars |-> <<>>, red_flags |-> <<>>]
    /\ lines_read = 0
    /\ kv_lines = 0
    /\ special_lines = 0
    /\ flag_lines = 0
    /\ env_result = NoEnvFile
    /\ shadow_insights = <<>>

IdleEnv ==
    /\ env_pc = "idle"
    /\ env_lists = [vars |-> <<>>, red_flags |-> <<>>]
    /\ lines_read = 0
    /\ kv_lines = 0
    /\ special_lines = 0
    /\ flag_lines = 0
    /\ env_result = NoEnvFile
    /\ shadow_insights = <<>>

\* repo.get_contents(".env.example") and the decoding succeed.
GetEnvFile ==
    /\ env_pc = "start"
    /\ env_lists' = [vars |-> <<>>, red_flags |-> <<>>]
    /\ env_pc' = "lines"
    /\ UNCHANGED notEnv
    /\ UNCHANGED <<lines_read, kv_lines, special_lines, flag_lines, env_result, shadow_insights>>

\* repo.get_contents raises GithubException: return {'exists': False}.
GetEnvFileRaises ==
    /\ env_pc = "start"
    /\ env_result' = NoEnvFile
    /\ env_pc' = "returned"
    /\ UNCHANGED notEnv
    /\ UNCHANGED <<env_lists, lines_read, kv_lines, special_lines, flag_lines, shadow_insights>>

\* One iteration of the loop over the lines of the file.
ReadLine ==
    /\ env_pc = "lines"
    /\ lines_read < MaxEnvLines
    /\ \E raw \in KeyValueLines \cup OtherLines :
         /\ raw \in SpecialLines => special_lines < MaxSpecialLines
         /\ env_lists' = ReadEnvLine(env_lists, raw)
         /\ kv_lines' = kv_lines + (IF raw \in KeyValueLines THEN 1 ELSE 0)
         /\ special_lines' = special_lines + (IF raw \in SpecialLines THEN 1 ELSE 0)
         /\ flag_lines' = flag_lines + (IF raw = RedFlagLine THEN 1 ELSE 0)
    /\ lines_read' = lines_read + 1
    /\ UNCHANGED notEnv
    /\ UNCHANGED <<env_pc, env_result, shadow_insights>>

\* After the last line: categories, complexity, return.
EndOfEnvFile ==
    /\ env_pc = "lines"
    /\ env_result' = EnvResult(env_lists)
    /\ env_pc' = "returned"
    /\ UNCHANGED notEnv
    /\ UNCHANGED <<env_lists, lines_read, kv_lines, special_lines, flag_lines, shadow_insights>>

\* _discover_shadow_infrastructure passes the sub-results to
\* _synthesize_shadow_insights (here a repository with no other file).
SynthesizeEnv ==
    /\ env_pc = "returned"
    /\ shadow_insights' =
          SynthesizeShadowInsights(
              [makefile_targets |-> NoMakefile,
               npm_scripts |-> NoPackageJson,
               env_complexity |-> env_result,
               workaround_scripts |-> NoWorkarounds,
               docker_compose_stack |-> NoCompose])
    /\ env_pc' = "done"
    /\ UNCHANGED notEnv
    /\ UNCHANGED <<env_lists, lines_read, kv_lines, special_lines, flag_lines, env_result>>

NextEnv ==
    \/ GetEnvFile
    \/ GetEnvFileRaises
    \/ ReadLine
    \/ EndOfEnvFile
    \/ SynthesizeEnv

(***************************************************************************)
(* _parse_docker_compose                                                   *)
(***************************************************************************)
COMPOSE_LOW_UP_TO == 2
COMPOSE_MEDIUM_UP_TO == 4
SERVICE_INDENT == 4

MaxComposeLines == 4     \* lines of one compose file

compose_files ==
    <<"docker-compose.yml", "docker-compose.yaml", "docker-compose.local.yml",
      "docker-compose.dev.yml">>

\* Lines of a compose file: keys of the services block at two spaces, their
\* settings at four, other top-level keys at none.
ServiceLines == {"  web:", "  db:", "  redis:", "  worker:", "  kafka:"}
ComposeLines ==
    ServiceLines \cup {"services:", "    image: nginx", "volumes:", "networks:", "version: '3'"}

\* Python: x in list
InList(x, list) == \E i \in 1..Len(list) : list[i] = x

\* The body of `for line in content.split('\n')`: in_services and services
\* after it.
ReadComposeStep(st, line) ==
    IF Strip(line) = "services:"
    THEN [st EXCEPT !.in_services = TRUE]
    ELSE IF StartsWith(Strip(line), "volumes:") \/ StartsWith(Strip(line), "networks:")
    THEN [st EXCEPT !.in_services = FALSE]
    ELSE IF /\ st.in_services
            /\ line # ""
            /\ ~StartsWith(line, Repeat(" ", SERVICE_INDENT))
            /\ Contains(":", line)
    THEN LET service_name == Strip(SplitFirst(line, ":"))
         IN  IF service_name # "" /\ ~InList(service_name, st.services)
             THEN [st EXCEPT !.services = Append(@, service_name)]
             ELSE st
    ELSE st

\* Python: str(list_of_str), for names without quotes or backslashes
RECURSIVE ReprFrom(_, _)
ReprFrom(names, i) ==
    IF i > Len(names) THEN ""
    ELSE "'" \o names[i] \o "'" \o (IF i < Len(names) THEN ", " ELSE "")
           \o ReprFrom(names, i + 1)

Repr(names) == "[" \o ReprFrom(names, 1) \o "]"

\* complexity = 'low' if len(services) <= 2 else 'medium' if len(services) <= 4 else 'high'
ComposeComplexityStrict(n) ==
    IF n < COMPOSE_LOW_UP_TO THEN "low"
    ELSE IF n < COMPOSE_MEDIUM_UP_TO THEN "medium" ELSE "high"

ComposeComplexity(n) ==
    IF n <= COMPOSE_LOW_UP_TO THEN "low"
    ELSE IF n <= COMPOSE_MEDIUM_UP_TO THEN "medium" ELSE "high"

ComposeResult(services) ==
    LET text == Lower(Repr(services))
    IN  [exists |-> Len(services) > 0,
         services |-> services,
         service_count |-> Len(services),
         has_database |-> ContainsAny(<<"postgres", "mysql", "mongo", "mariadb">>, text),
         has_cache |-> ContainsAny(<<"redis", "memcache">>, text),
         has_queue |-> ContainsAny(<<"rabbitmq", "kafka", "celery">>, text),
         complexity |-> ComposeComplexity(Len(services))]

InitCompose ==
    /\ dc_pc = "next_file"
    /\ file_idx = 1
    /\ dc = [in_services |-> FALSE, services |-> <<>>]
    /\ dc_lines = 0
    /\ dc_result = NoCompose

IdleCompose ==
    /\ dc_pc = "idle"
    /\ file_idx = 1
    /\ dc = [in_services |-> FALSE, services |-> <<>>]
    /\ dc_lines = 0
    /\ dc_result = NoCompose

\* repo.get_contents(filename) succeeds: in_services = False, then its lines.
OpenComposeFile ==
    /\ dc_pc = "next_file"
    /\ file_idx <= Len(compose_files)
    /\ dc' = [dc EXCEPT !.in_services = FALSE]
    /\ dc_lines' = 0
    /\ dc_pc' = "lines"
    /\ UNCHANGED notCompose
    /\ UNCHANGED <<file_idx, dc_result>>

\* repo.get_contents(filename) raises GithubException: continue.
ComposeFileMissing ==
    /\ dc_pc = "next_file"
    /\ file_idx <= Len(compose_files)
    /\ file_idx' = file_idx + 1
    /\ UNCHANGED notCompose
    /\ UNCHANGED <<dc_pc, dc, dc_lines, dc_result>>

\* One iteration of the loop over the lines of the file.
ReadComposeLine ==
    /\ dc_pc = "lines"
    /\ dc_lines < MaxComposeLines
    /\ \E line \in ComposeLines : dc' = ReadComposeStep(dc, line)
    /\ dc_lines' = dc_lines + 1
    /\ UNCHANGED notCompose
    /\ UNCHANGED <<dc_pc, file_idx, dc_result>>

\* The file has no more lines: on to the next file name.
EndOfComposeFile ==
    /\ dc_pc = "lines"
    /\ file_idx' = file_idx + 1
    /\ dc_pc' = "next_file"
    /\ UNCHANGED notCompose
    /\ UNCHANGED <<dc, dc_lines, dc_result>>

\* After the four file names: the flags, the complexity, return.
FinishCompose ==
    /\ dc_pc = "next_file"
    /\ file_idx > Len(compose_files)
    /\ dc_result' = ComposeResult(dc.services)
    /\ dc_pc' = "returned"
    /\ UNCHANGED notCompose
    /\ UNCHANGED <<file_idx, dc, dc_lines>>

NextCompose ==
    \/ OpenComposeFile
    \/ ComposeFileMissing
    \/ ReadComposeLine
    \/ EndOfComposeFile
    \/ FinishCompose

(***************************************************************************)
(* _parse_makefile                                                         *)
(***************************************************************************)
MaxMakefileLines == 3    \* lines of the Makefile

\* Lines of a Makefile.
DeployLine == "deploy:"
BuildLine == "build: deps"
PhonyLine == ".PHONY: deploy"
AssignLine == "CC := gcc"
MakeCommentLine == "# deploy: retired"
DockerCommandLine == "\tdocker build ."
EchoCommandLine == "\t@echo done"
SilentCommandLine == "\t@@./release.sh"
DockerTargetLine == "docker-build:"
TestLine == "test: build"

MakefileLines ==
    {DeployLine, BuildLine, PhonyLine, AssignLine, MakeCommentLine, DockerCommandLine,
     EchoCommandLine, SilentCommandLine, DockerTargetLine, TestLine}

\* Python: s.lstrip(ch)  (ch one character)
RECURSIVE LStripChar(_, _)
LStripChar(s, ch) ==
    IF Len(s) > 0 /\ SubSeq(s, 1, 1) = ch THEN LStripChar(SubSeq(s, 2, Len(s)), ch) ELSE s

\* Python: d[k] = v on a dict kept as the sequence of its items: a new key is
\* added at the end, an old one keeps its place.
SetItem(d, k, v) ==
    IF \E i \in 1..Len(d) : d[i].key = k
    THEN [i \in 1..Len(d) |-> IF d[i].key = k THEN [key |-> k, value |-> v] ELSE d[i]]
    ELSE Append(d, [key |-> k, value |-> v])

\* Python: d[k].append(x)
AppendToItem(d, k, x) ==
    [i \in 1..Len(d) |->
        IF d[i].key = k THEN [key |-> k, value |-> Append(d[i].value, x)] ELSE d[i]]

\* The body of `for line in content.split('\n')`: targets, current_target
\* (None is "") and commands after it.
ReadMakefileLine(st, line) ==
    IF /\ line # ""
       /\ ~StartsWith(line, "\t")
       /\ Contains(":", line)
       /\ ~StartsWith(line, "#")
    THEN LET target == Strip(SplitFirst(line, ":"))
         IN  IF target # "" /\ ~StartsWith(target, ".")
             THEN [targets |-> Append(st.targets, target),
                   current_target |-> target,
                   commands |-> SetItem(st.commands, target, <<>>)]
             ELSE st
    ELSE IF StartsWith(line, "\t") /\ st.current_target # ""
    THEN LET cmd == Strip(line)
         IN  IF cmd # "" /\ ~StartsWith(cmd, "@echo") /\ ~StartsWith(cmd, "#")
             THEN [st EXCEPT
                     !.commands = AppendToItem(@, st.current_target, LStripChar(cmd, "@"))]
             ELSE st
    ELSE st

\* Python: str(commands), a dict of lists of strings
RECURSIVE ReprItemsFrom(_, _)
ReprItemsFrom(d, i) ==
    IF i > Len(d) THEN ""
    ELSE "'" \o d[i].key \o "': " \o Repr(d[i].value)
           \o (IF i < Len(d) THEN ", " ELSE "") \o ReprItemsFrom(d, i + 1)

ReprDict(d) == "{" \o ReprItemsFrom(d, 1) \o "}"

\* has_deploy = any('deploy' in t for t in targets)
HasDeployTargetLast(targets) ==
    targets # <<>> /\ Contains("deploy", targets[Len(targets)])

HasDeployTarget(targets) == \E i \in 1..Len(targets) : Contains("deploy", targets[i])

\* has_test = any('test' in t for t in targets)
HasTestTarget(targets) == \E i \in 1..Len(targets) : Contains("test", targets[i])

\* has_docker = any('docker' in str(commands) for t in targets)
UsesDocker(targets, commands) ==
    \E i \in 1..Len(targets) : Contains("docker", ReprDict(commands))

MakefileResult(st) ==
    [exists |-> TRUE,
     targets |-> st.targets,
     commands |-> st.commands,
     has_deploy_target |-> HasDeployTarget(st.targets),
     has_test_target |-> HasTestTarget(st.targets),
     uses_docker |-> UsesDocker(st.targets, st.commands),
     total_targets |-> Len(st.targets)]

NewMakefileState == [targets |-> <<>>, current_target |-> "", commands |-> <<>>]

InitMakefile ==
    /\ mk_pc = "start"
    /\ mk = NewMakefileState
    /\ mk_lines = <<>>
    /\ mk_result = NoMakefile
    /\ mk_insights = <<>>

IdleMakefile ==
    /\ mk_pc = "idle"
    /\ mk = NewMakefileState
    /\ mk_lines = <<>>
    /\ mk_result = NoMakefile
    /\ mk_insights = <<>>

\* repo.get_contents("Makefile") and the decoding succeed.
GetMakefile ==
    /\ mk_pc = "start"
    /\ mk' = NewMakefileState
    /\ mk_pc' = "lines"
    /\ UNCHANGED notMakefile
    /\ UNCHANGED <<mk_lines, mk_result, mk_insights>>

\* repo.get_contents raises GithubException: return {'exists': False}.
GetMakefileRaises ==
    /\ mk_pc = "start"
    /\ mk_result' = NoMakefile
    /\ mk_pc' = "returned"
    /\ UNCHANGED notMakefile
    /\ UNCHANGED <<mk, mk_lines, mk_insights>>

\* One iteration of the loop over the lines of the file.
ReadMakefile ==
    /\ mk_pc = "lines"
    /\ Len(mk_lines) < MaxMakefileLines
    /\ \E line \in MakefileLines :
         /\ mk' = ReadMakefileLine(mk, line)
         /\ mk_lines' = Append(mk_lines, line)
    /\ UNCHANGED notMakefile
    /\ UNCHANGED <<mk_pc, mk_result, mk_insights>>

\* After the last line: the pattern flags, return.
EndOfMakefile ==
    /\ mk_pc = "lines"
    /\ mk_result' = MakefileResult(mk)
    /\ mk_pc' = "returned"
    /\ UNCHANGED notMakefile
    /\ UNCHANGED <<mk, mk_lines, mk_insights>>

\* _discover_shadow_infrastructure passes the sub-results to
\* _synthesize_shadow_insights (here a repository with no other file).
SynthesizeMakefile ==
    /\ mk_pc = "returned"
    /\ mk_insights' =
          SynthesizeShadowInsights(
              [makefile_targets |-> mk_result,
               npm_scripts |-> NoPackageJson,
               env_complexity |-> NoEnvFile,
               workaround_scripts |-> NoWorkarounds,
               docker_compose_stack |-> NoCompose])
    /\ mk_pc' = "done"
    /\ UNCHANGED notMakefile
    /\ UNCHANGED <<mk, mk_lines, mk_result>>

NextMakefile ==
    \/ GetMakefile
    \/ GetMakefileRaises
    \/ ReadMakefile
    \/ EndOfMakefile
    \/ SynthesizeMakefile

(***************************************************************************)
(* _parse_package_json_scripts, _find_workaround_scripts and the           *)
(* sub-results _discover_shadow_infrastructure hands to the synthesizer    *)
(***************************************************************************)
MaxWorkaroundScripts == 2    \* workaround scripts found in one repository

\* Python: k in d, d a dict kept as the sequence of its items
HasKey(d, k) == \E i \in 1..Len(d) : d[i].key = k

\* Python: any(word in s for s in scripts.keys())
AnyKeyContains(d, word) == \E i \in 1..Len(d) : Contains(word, d[i].key)

\* The dict _parse_package_json_scripts returns for a manifest whose scripts
\* object is `scripts`.
PackageJsonResult(scripts) ==
    [exists |-> TRUE,
     scripts |-> scripts,
     has_fast_test |-> HasKey(scripts, "test:fast") \/ HasKey(scripts, "test:quick"),
     has_debug_mode |-> AnyKeyContains(scripts, "debug"),
     has_docker_scripts |-> AnyKeyContains(scripts, "docker"),
     has_deploy_scripts |-> AnyKeyContains(scripts, "deploy"),
     postinstall_hook |-> HasKey(scripts, "postinstall"),
     test_script_count |-> Cardinality({i \in 1..Len(scripts) : Contains("test", scripts[i].key)}),
     total_scripts |-> Len(scripts)]

Script(name, command) == [key |-> name, value |-> command]

\* The dict _find_workaround_scripts returns for the list `workarounds`.
WorkaroundResult(workarounds) ==
    [found |-> Len(workarounds) > 0, count |-> Len(workarounds), scripts |-> workarounds]

\* Its except branch.
WorkaroundsUnavailable == [found |-> FALSE, count |-> 0]

RootScript(n) == [name |-> "fix" \o Str(n) \o ".sh", path |-> "fix" \o Str(n) \o ".sh",
                  location |-> "root"]

\* The except branch of _parse_docker_compose.
ComposeUnavailable == [exists |-> FALSE]

\* Sub-results that make a rule's condition true (holds) or false.
MakefileInputs(holds) ==
    IF holds
    THEN {MakefileResult(ReadMakefileLine(NewMakefileState, DeployLine))}
    ELSE {NoMakefile, MakefileResult(ReadMakefileLine(NewMakefileState, BuildLine))}

PackageInputs(fast, hook) ==
    LET test == <<Script("test", "jest")>>
        quick == IF fast THEN <<Script("test:quick", "jest -o")>> ELSE <<>>
        post == IF hook THEN <<Script("postinstall", "patch-package")>> ELSE <<>>
    IN  {PackageJsonResult(test \o quick \o post)}
          \cup (IF fast \/ hook THEN {} ELSE {NoPackageJson})

EnvInputs(high, flagged) ==
    LET plain == [i \in 1..(IF high THEN ENV_MEDIUM_BELOW ELSE ENV_LOW_BELOW) |-> "PORT"]
        flags == IF flagged THEN <<"LEGACY_MODE", "TEMP_DIR">> ELSE <<>>
    IN  {EnvResult([vars |-> plain \o flags, red_flags |-> flags])}
          \cup (IF high \/ flagged THEN {} ELSE {NoEnvFile})

WorkaroundInputs(holds) ==
    IF holds
    THEN {WorkaroundResult([i \in 1..n |-> RootScript(i)]) : n \in 1..MaxWorkaroundScripts}
    ELSE {WorkaroundResult(<<>>), WorkaroundsUnavailable}

ComposeInputs(holds) ==
    IF holds
    THEN {ComposeResult(<<"web", "db", "redis", "worker">>),
          ComposeResult(<<"web", "db", "redis", "worker", "kafka">>)}
    ELSE {ComposeUnavailable, ComposeResult(<<>>), ComposeResult(<<"web", "db", "redis">>)}

\* The dicts `shadow` in which exactly the rules of `conds` have their
\* condition true.
ShadowInputs(conds) ==
    [makefile_targets : MakefileInputs(conds[1]),
     npm_scripts : PackageInputs(conds[2], conds[3]),
     env_complexity : EnvInputs(conds[4], conds[5]),
     workaround_scripts : WorkaroundInputs(conds[6]),
     docker_compose_stack : ComposeInputs(conds[7])]

NoConditions == [i \in 1..7 |-> FALSE]

\* The dict `shadow` of a repository with none of the files.
NoSignals ==
    [makefile_targets |-> NoMakefile,
     npm_scripts |-> NoPackageJson,
     env_complexity |-> NoEnvFile,
     workaround_scripts |-> NoWorkarounds,
     docker_compose_stack |-> NoCompose]

InitShadow ==
    /\ sh_pc = "start"
    /\ sh_conds \in [1..7 -> BOOLEAN]
    /\ shadow_arg \in ShadowInputs(sh_conds)
    /\ sh_insights = <<>>

IdleShadow ==
    /\ sh_pc = "idle"
    /\ sh_conds = NoConditions
    /\ shadow_arg = NoSignals
    /\ sh_insights = <<>>

\* shadow['insights'] = self._synthesize_shadow_insights(shadow)
Synthesize ==
    /\ sh_pc = "start"
    /\ sh_insights' = SynthesizeShadowInsights(shadow_arg)
    /\ sh_pc' = "done"
    /\ UNCHANGED notShadow
    /\ UNCHANGED <<sh_conds, shadow_arg>>

NextShadow == Synthesize

(***************************************************************************)
(* _analyze_ci_performance                                                 *)
(***************************************************************************)
WORKFLOW_LIMIT == 5
RUN_LIMIT == 10
SLOW_OVER_MINUTES == 15
SECONDS_PER_MINUTE == 60

MaxWorkflowsOver == 1    \* workflows a listing holds beyond WORKFLOW_LIMIT
MaxRunsOver == 1         \* runs a workflow holds beyond RUN_LIMIT

\* Workflow runs.  A timestamp is <<t>>, in seconds, or <<>> for None; the
\* conclusion of a run that has none yet is "".
FailedRunNoTimes == [conclusion |-> "failure", created_at |-> <<>>, updated_at |-> <<>>]
RunInProgress == [conclusion |-> "", created_at |-> <<0>>, updated_at |-> <<>>]
Run900 == [conclusion |-> "success", created_at |-> <<0>>, updated_at |-> <<900>>]
Run906 == [conclusion |-> "success", created_at |-> <<0>>, updated_at |-> <<906>>]
FailedRun900 == [conclusion |-> "failure", created_at |-> <<0>>, updated_at |-> <<900>>]

RunKinds == <<FailedRunNoTimes, RunInProgress, Run900, Run906, FailedRun900>>

\* The run lists of a workflow: counts[k] runs of kind k, kind after kind.
RECURSIVE RunsOfFrom(_, _)
RunsOfFrom(counts, k) ==
    IF k > Len(RunKinds) THEN <<>>
    ELSE [i \in 1..counts[k] |-> RunKinds[k]] \o RunsOfFrom(counts, k + 1)

RECURSIVE SumSeq(_, _)
SumSeq(xs, i) == IF i > Len(xs) THEN 0 ELSE xs[i] + SumSeq(xs, i + 1)

\* Every run list of at most n runs, runs of one kind together.
RunLists(n) ==
    {RunsOfFrom(counts, 1) :
        counts \in {c \in [1..Len(RunKinds) -> 0..n] : SumSeq(c, 1) <= n}}

\* The run lists of the workflows of a long listing.
FewRunLists ==
    {<<>>, <<FailedRunNoTimes, RunInProgress>>, <<Run906, Run906>>}

\* A repository's workflows: how many the listing holds (totalCount), and
\* whether their runs vary freely.
CISources ==
    {[total |-> 1, runs |-> "any"]}
      \cup {[total |-> n, runs |-> "few"] : n \in 0..(WORKFLOW_LIMIT + MaxWorkflowsOver)}

RunListsOf(src) ==
    IF src.runs = "any" THEN RunLists(RUN_LIMIT + MaxRunsOver) ELSE FewRunLists

NewCIAnalysis ==
    [workflow_count |-> 0, workflows |-> <<>>, recent_runs |-> <<>>, insights |-> <<>>]

WorkflowName(i) == "wf" \o Str(i)

NewWorkflowData(i) ==
    [name |-> WorkflowName(i),
     path |-> ".github/workflows/" \o WorkflowName(i) \o ".yml",
     state |-> "active"]

\* The body of `for run in runs`: failures and durations after it.
RECURSIVE CountRunsEitherTime(_, _, _)
CountRunsEitherTime(runs, i, acc) ==
    IF i > Len(runs) THEN acc
    ELSE LET run == runs[i]
             failures == acc.failures + (IF run.conclusion = "failure" THEN 1 ELSE 0)
             durations ==
                 IF run.created_at # <<>> \/ run.updated_at # <<>>
                 THEN Append(acc.durations,
                             (IF run.updated_at # <<>> THEN run.updated_at[1] ELSE 0)
                               - (IF run.created_at # <<>> THEN run.created_at[1] ELSE 0))
                 ELSE acc.durations
         IN  CountRunsEitherTime(runs, i + 1,
                                 [failures |-> failures, durations |-> durations])

RECURSIVE CountRuns(_, _, _)
CountRuns(runs, i, acc) ==
    IF i > Len(runs) THEN acc
    ELSE LET run == runs[i]
             failures == acc.failures + (IF run.conclusion = "failure" THEN 1 ELSE 0)
             durations ==
                 IF run.created_at # <<>> /\ run.updated_at # <<>>
                 THEN Append(acc.durations, run.updated_at[1] - run.created_at[1])
                 ELSE acc.durations
         IN  CountRuns(runs, i + 1, [failures |-> failures, durations |-> durations])

\* int(avg_duration), avg_duration = total / n >= 0
AvgSeconds(total, n) == total \div n

\* round(avg_duration / 60, 1), in tenths of a minute.  The quotient is
\* rounded to the nearest tenth; of the half-way cases only 15.05 (an average
\* of 903 seconds) occurs with the runs above, and there the double nearest to
\* 15.05 lies above it, so Python rounds up.
AvgMinutes(total, n) ==
    (20 * total + SECONDS_PER_MINUTE * n) \div (2 * SECONDS_PER_MINUTE * n)

\* The workflow_data of a workflow whose runs were fetched.
WorkflowStats(data, runs) ==
    IF runs = <<>> THEN data
    ELSE LET acc == CountRuns(runs, 1, [failures |-> 0, durations |-> <<>>])
             total == SumSeq(acc.durations, 1)
             n == Len(acc.durations)
             timed == IF n > 0
                      THEN data @@ [avg_duration_seconds |-> AvgSeconds(total, n),
                                    avg_duration_minutes |-> AvgMinutes(total, n)]
                      ELSE data
         IN  timed @@ [failure_rate |-> [num |-> acc.failures, den |-> Len(runs)],
                       recent_runs |-> Len(runs)]

\* f'{x}' for a float with one decimal, given in tenths
StrTenths(t) == Str(t \div 10) \o "." \o Str(t % 10)

\* f'{rate*100:.0f}': the nearest integer, a half going to the even one
Percent(rate) ==
    LET q == (100 * rate.num) \div rate.den
        r == (100 * rate.num) % rate.den
    IN  IF 2 * r > rate.den \/ (2 * r = rate.den /\ q % 2 = 1) THEN q + 1 ELSE q

CIInsight(category, issue, severity, description) ==
    [category |-> category, issue |-> issue, severity |-> severity,
     description |-> description]

\* workflow.get('avg_duration_minutes', 0) > 15
SlowWorkflow(workflow) ==
    Get(workflow, "avg_duration_minutes", 0) > 10 * SLOW_OVER_MINUTES

\* workflow.get('failure_rate', 0) > 0.2
FlakyWorkflowInclusive(workflow) ==
    LET rate == Get(workflow, "failure_rate", [num |-> 0, den |-> 1])
    IN  5 * rate.num >= rate.den

FlakyWorkflow(workflow) ==
    LET rate == Get(workflow, "failure_rate", [num |-> 0, den |-> 1])
    IN  5 * rate.num > rate.den

\* The body of `for workflow in ci_analysis['workflows']`.
WorkflowInsights(workflow) ==
    (IF SlowWorkflow(workflow)
     THEN <<CIInsight("ci_performance", "slow_ci_workflow", "medium",
              workflow.name \o ": " \o StrTenths(workflow.avg_duration_minutes)
                \o " minute average runtime")>>
     ELSE <<>>) \o
    (IF FlakyWorkflow(workflow)
     THEN <<CIInsight("ci_reliability", "flaky_ci_workflow", "high",
              workflow.name \o ": " \o Str(Percent(workflow.failure_rate))
                \o "% failure rate")>>
     ELSE <<>>)

InitCI ==
    /\ ci_pc = "start"
    /\ ci_source \in CISources
    /\ ci_analysis = NewCIAnalysis
    /\ ci_fetched = <<>>
    /\ ci_idx = 0

IdleCI ==
    /\ ci_pc = "idle"
    /\ ci_source = [total |-> 0, runs |-> "few"]
    /\ ci_analysis = NewCIAnalysis
    /\ ci_fetched = <<>>
    /\ ci_idx = 0

\* workflows = repo.get_workflows(); workflow_count = workflows.totalCount;
\* list(workflows)[:5]
GetWorkflows ==
    /\ ci_pc = "start"
    /\ ci_analysis' = [ci_analysis EXCEPT !.workflow_count = ci_source.total]
    /\ ci_pc' = "workflows"
    /\ UNCHANGED notCI
    /\ UNCHANGED <<ci_source, ci_fetched, ci_idx>>

\* repo.get_workflows() or totalCount raises GithubException.
GetWorkflowsRaises ==
    /\ ci_pc = "start"
    /\ ci_pc' = "insights"
    /\ UNCHANGED notCI
    /\ UNCHANGED <<ci_source, ci_analysis, ci_fetched, ci_idx>>

\* list(workflows) raises GithubException, the count being set.
ListWorkflowsRaises ==
    /\ ci_pc = "start"
    /\ ci_source.total > 0
    /\ ci_analysis' = [ci_analysis EXCEPT !.workflow_count = ci_source.total]
    /\ ci_pc' = "insights"
    /\ UNCHANGED notCI
    /\ UNCHANGED <<ci_source, ci_fetched, ci_idx>>

\* One iteration of `for workflow in list(workflows)[:5]`, the runs fetched:
\* the first RUN_LIMIT of them are gone through.
AnalyzeWorkflow ==
    /\ ci_pc = "workflows"
    /\ Len(ci_analysis.workflows) < Min(ci_source.total, WORKFLOW_LIMIT)
    /\ \E available \in RunListsOf(ci_source) :
         LET runs == Prefix(available, RUN_LIMIT)
             i == Len(ci_analysis.workflows) + 1
         IN  /\ ci_analysis' =
                   [ci_analysis EXCEPT
                      !.workflows = Append(@, WorkflowStats(NewWorkflowData(i), runs))]
             /\ ci_fetched' = Append(ci_fetched, [raised |-> FALSE, runs |-> runs])
    /\ UNCHANGED notCI
    /\ UNCHANGED <<ci_pc, ci_source, ci_idx>>

\* One iteration, workflow.get_runs() raising GithubException.
GetRunsRaises ==
    /\ ci_pc = "workflows"
    /\ Len(ci_analysis.workflows) < Min(ci_source.total, WORKFLOW_LIMIT)
    /\ LET i == Len(ci_analysis.workflows) + 1
       IN  ci_analysis' = [ci_analysis EXCEPT !.workflows = Append(@, NewWorkflowData(i))]
    /\ ci_fetched' = Append(ci_fetched, [raised |-> TRUE, runs |-> <<>>])
    /\ UNCHANGED notCI
    /\ UNCHANGED <<ci_pc, ci_source, ci_idx>>

\* The loop over the workflows ends.
WorkflowsDone ==
    /\ ci_pc = "workflows"
    /\ Len(ci_analysis.workflows) = Min(ci_source.total, WORKFLOW_LIMIT)
    /\ ci_pc' = "insights"
    /\ UNCHANGED notCI
    /\ UNCHANGED <<ci_source, ci_analysis, ci_fetched, ci_idx>>

\* One iteration of the insight loop.
GenerateInsights ==
    /\ ci_pc = "insights"
    /\ ci_idx < Len(ci_analysis.workflows)
    /\ ci_analysis' =
          [ci_analysis EXCEPT
             !.insights = @ \o WorkflowInsights(ci_analysis.workflows[ci_idx + 1])]
    /\ ci_idx' = ci_idx + 1
    /\ UNCHANGED notCI
    /\ UNCHANGED <<ci_pc, ci_source, ci_fetched>>

\* return ci_analysis
ReturnCIAnalysis ==
    /\ ci_pc = "insights"
    /\ ci_idx = Len(ci_analysis.workflows)
    /\ ci_pc' = "returned"
    /\ UNCHANGED notCI
    /\ UNCHANGED <<ci_source, ci_analysis, ci_fetched, ci_idx>>

NextCI ==
    \/ GetWorkflows
    \/ GetWorkflowsRaises
    \/ ListWorkflowsRaises
    \/ AnalyzeWorkflow
    \/ GetRunsRaises
    \/ WorkflowsDone
    \/ GenerateInsights
    \/ ReturnCIAnalysis

(***************************************************************************)
(* _detect_code_fear                                                       *)
(***************************************************************************)
RESULT_LIMIT == 10
HIGH_FEAR_OVER == 5

MaxHits == 3             \* hits of one keyword in a repository with few hits
MaxHitKeywords == 2      \* keywords that have hits in such a repository
MaxHitsOver == 1         \* hits a keyword has beyond RESULT_LIMIT in one with many
MaxSearchFailures == 1   \* keywords whose search raises

fear_keywords ==
    <<"DO NOT TOUCH", "DO NOT CHANGE", "DON'T TOUCH", "DON'T CHANGE", "FRAGILE",
      "DANGEROUS", "CAREFUL", "XXX", "HACK HACK", "WARNING WARNING">>

\* What the code search holds for a repository: the number of hits of each
\* keyword and the keywords whose search raises GithubException.
FailingSearches ==
    {f \in SUBSET (1..Len(fear_keywords)) : Cardinality(f) <= MaxSearchFailures}

FewHits ==
    {[k \in 1..Len(fear_keywords) |-> IF k <= MaxHitKeywords THEN first[k] ELSE 0] :
        first \in [1..MaxHitKeywords -> 0..MaxHits]}

ManyHits == {[k \in 1..Len(fear_keywords) |-> RESULT_LIMIT + MaxHitsOver]}

FearSources == [hits : FewHits \cup ManyHits, fails : FailingSearches]

NewFear ==
    [sacred_cows |-> <<>>, frozen_files |-> <<>>, defensive_code_files |-> <<>>,
     total_fear_signals |-> 0, insights |-> <<>>]

\* The Signal appended for the j-th result of the search for keyword k.
SacredCow(k, j) ==
    [file |-> "src/m" \o Str(j) \o ".py",
     keyword |-> fear_keywords[k],
     url |-> "https://github.com/org/repo/blob/main/src/m" \o Str(j) \o ".py"]

\* for result in list(results)[:10]: fear['sacred_cows'].append(...)
RecordHits(cows, k, hits) ==
    cows \o [j \in 1..Min(hits, RESULT_LIMIT) |-> SacredCow(k, j)]

\* if fear['total_fear_signals'] > 5
HighFearInclusive(total) == total >= HIGH_FEAR_OVER

HighFear(total) == total > HIGH_FEAR_OVER

FearInsights(total) ==
    IF HighFear(total)
    THEN <<[category |-> "code_quality", issue |-> "high_fear_signals",
            severity |-> "high",
            description |-> Str(total) \o " fear keywords found in code"]>>
    ELSE <<>>

InitFear ==
    /\ fear_pc = "keywords"
    /\ fear_source \in FearSources
    /\ kw_idx = 1
    /\ fear = NewFear
    /\ searched = <<>>

IdleFear ==
    /\ fear_pc = "idle"
    /\ fear_source = [hits |-> [k \in 1..Len(fear_keywords) |-> 0], fails |-> {}]
    /\ kw_idx = 1
    /\ fear = NewFear
    /\ searched = <<>>

\* One iteration of `for keyword in fear_keywords`, the search succeeding.
SearchKeyword ==
    /\ fear_pc = "keywords"
    /\ kw_idx <= Len(fear_keywords)
    /\ kw_idx \notin fear_source.fails
    /\ fear' = [fear EXCEPT
                  !.sacred_cows = RecordHits(@, kw_idx, fear_source.hits[kw_idx])]
    /\ searched' = Append(searched, kw_idx)
    /\ kw_idx' = kw_idx + 1
    /\ UNCHANGED notFear
    /\ UNCHANGED <<fear_pc, fear_source>>

\* One iteration, search_code or the listing of its results raising
\* GithubException: continue.
SearchRaisesAborts ==
    /\ fear_pc = "keywords"
    /\ kw_idx <= Len(fear_keywords)
    /\ kw_idx \in fear_source.fails
    /\ searched' = Append(searched, kw_idx)
    /\ fear_pc' = "returned"
    /\ UNCHANGED notFear
    /\ UNCHANGED <<fear_source, fear, kw_idx>>

SearchRaises ==
    /\ fear_pc = "keywords"
    /\ kw_idx <= Len(fear_keywords)
    /\ kw_idx \in fear_source.fails
    /\ searched' = Append(searched, kw_idx)
    /\ kw_idx' = kw_idx + 1
    /\ UNCHANGED notFear
    /\ UNCHANGED <<fear_pc, fear_source, fear>>

\* After the loop: the total, the insight rule, return.
FinishFear ==
    /\ fear_pc = "keywords"
    /\ kw_idx > Len(fear_keywords)
    /\ fear' = [fear EXCEPT
                  !.total_fear_signals = Len(fear.sacred_cows),
                  !.insights = @ \o FearInsights(Len(fear.sacred_cows))]
    /\ fear_pc' = "returned"
    /\ UNCHANGED notFear
    /\ UNCHANGED <<fear_source, kw_idx, searched>>

NextFear ==
    \/ SearchKeyword
    \/ SearchRaises
    \/ FinishFear

(***************************************************************************)
(* _parse_package_json_scripts                                             *)
(***************************************************************************)

MaxScripts == 3    \* entries of the scripts object of package.json

\* Script names a manifest declares.
script_names ==
    {"test", "build", "test:fast", "test:quick", "test:fast:watch", "pretest:quick",
     "postinstall", "postinstall:patch", "debug:server", "docker:up", "deploy:prod"}

\* content.get('scripts', {}): the scripts object, its names distinct, or {}
\* when the manifest has none.
ScriptDicts ==
    {[i \in 1..Len(names) |-> Script(names[i], "run " \o names[i])] :
        names \in {ns \in UNION {[1..n -> script_names] : n \in 0..MaxScripts} :
                      \A i, j \in 1..Len(ns) : i # j => ns[i] # ns[j]}}

InitPackage ==
    /\ pkg_pc = "start"
    /\ pkg_scripts = <<>>
    /\ pkg_result = NoPackageJson

IdlePackage ==
    /\ pkg_pc = "idle"
    /\ pkg_scripts = <<>>
    /\ pkg_result = NoPackageJson

\* repo.get_contents("package.json") and json.loads succeed;
\* scripts = content.get('scripts', {}).
LoadPackageJson ==
    /\ pkg_pc = "start"
    /\ pkg_scripts' \in ScriptDicts
    /\ pkg_pc' = "loaded"
    /\ UNCHANGED notPackage
    /\ UNCHANGED pkg_result

\* repo.get_contents raises GithubException or json.loads raises
\* json.JSONDecodeError: return {'exists': False}.
PackageJsonUnreadable ==
    /\ pkg_pc = "start"
    /\ pkg_result' = NoPackageJson
    /\ pkg_pc' = "returned"
    /\ UNCHANGED notPackage
    /\ UNCHANGED pkg_scripts

\* The pattern flags and the returned dict.
DetectScriptPatterns ==
    /\ pkg_pc = "loaded"
    /\ pkg_result' = PackageJsonResult(pkg_scripts)
    /\ pkg_pc' = "returned"
    /\ UNCHANGED notPackage
    /\ UNCHANGED pkg_scripts

NextPackage ==
    \/ LoadPackageJson
    \/ PackageJsonUnreadable
    \/ DetectScriptPatterns

(***************************************************************************)
(* Specifications: one per operation of the program.                       *)
(***************************************************************************)
Init ==
    InitOrg /\ IdlePR /\ IdleCommits /\ IdleEnv /\ IdleCompose /\ IdleMakefile
        /\ IdleShadow /\ IdleCI /\ IdleFear /\ IdlePackage

Next == NextOrg

\* main over one organization.
Spec == Init /\ [][Next]_vars

\* _mine_pr_comments over one repository's pull requests.
InitSpecPR ==
    InitPR({RichSource, LongSource, VerboseSource, TopicSource}) /\ IdleOrg /\ IdleCommits
        /\ IdleEnv /\ IdleCompose /\ IdleMakefile /\ IdleShadow /\ IdleCI /\ IdleFear
        /\ IdlePackage

SpecPR == InitSpecPR /\ [][NextPR]_vars

\* _analyze_commit_patterns over one repository's history.
InitSpecCommits ==
    InitCommits(ShortHistories \cup LongHistories) /\ IdleOrg /\ IdlePR /\ IdleEnv
        /\ IdleCompose /\ IdleMakefile /\ IdleShadow /\ IdleCI /\ IdleFear /\ IdlePackage

SpecCommits == InitSpecCommits /\ [][NextCommits]_vars

\* _analyze_env_vars over one env template, then the synthesis of insights.
InitSpecEnv ==
    InitEnv /\ IdleOrg /\ IdlePR /\ IdleCommits /\ IdleCompose /\ IdleMakefile
        /\ IdleShadow /\ IdleCI /\ IdleFear /\ IdlePackage

SpecEnv == InitSpecEnv /\ [][NextEnv]_vars

\* _parse_docker_compose over the four candidate compose files.
InitSpecCompose ==
    InitCompose /\ IdleOrg /\ IdlePR /\ IdleCommits /\ IdleEnv /\ IdleMakefile
        /\ IdleShadow /\ IdleCI /\ IdleFear /\ IdlePackage

SpecCompose == InitSpecCompose /\ [][NextCompose]_vars

\* _parse_makefile over one Makefile, then the synthesis of insights.
InitSpecMakefile ==
    InitMakefile /\ IdleOrg /\ IdlePR /\ IdleCommits /\ IdleEnv /\ IdleCompose
        /\ IdleShadow /\ IdleCI /\ IdleFear /\ IdlePackage

SpecMakefile == InitSpecMakefile /\ [][NextMakefile]_vars

\* _synthesize_shadow_insights over the combinations of sub-results.
InitSpecShadow ==
    InitShadow /\ IdleOrg /\ IdlePR /\ IdleCommits /\ IdleEnv /\ IdleCompose
        /\ IdleMakefile /\ IdleCI /\ IdleFear /\ IdlePackage

SpecShadow == InitSpecShadow /\ [][NextShadow]_vars

\* _analyze_ci_performance over one repository's workflows.
InitSpecCI ==
    InitCI /\ IdleOrg /\ IdlePR /\ IdleCommits /\ IdleEnv /\ IdleCompose /\ IdleMakefile
        /\ IdleShadow /\ IdleFear /\ IdlePackage

SpecCI == InitSpecCI /\ [][NextCI]_vars

\* _detect_code_fear over one repository's code search.
InitSpecFear ==
    InitFear /\ IdleOrg /\ IdlePR /\ IdleCommits /\ IdleEnv /\ IdleCompose
        /\ IdleMakefile /\ IdleShadow /\ IdleCI /\ IdlePackage

SpecFear == InitSpecFear /\ [][NextFear]_vars

\* _parse_package_json_scripts over one repository's package.json.
InitSpecPackage ==
    InitPackage /\ IdleOrg /\ IdlePR /\ IdleCommits /\ IdleEnv /\ IdleCompose
        /\ IdleMakefile /\ IdleShadow /\ IdleCI /\ IdleFear

SpecPackage == InitSpecPackage /\ [][NextPackage]_vars

\* C1: an error raised while processing repository N does not propagate past
\* that repository: once ingest_org has returned, every repository after N
\* has its document written and the results produced for the repositories
\* before N are in the returned list.
C1_ErrorStaysInRepository ==
    (pc \in {"summary", "done"} /\ raised_at > 0) =>
        /\ \A i \in (raised_at + 1)..Len(repos) :
               \E k \in 1..Len(written) : written[k] = repos[i]
        /\ \A i \in 1..(raised_at - 1) :
               \E k \in 1..Len(returned) : returned[k].metadata.name = repos[i]

\* C2: after main finishes, summary.json describes exactly the documents
\* written: repos_ingested is their number and repos their names, in order.
C2_SummaryMatchesDocuments ==
    pc = "done" =>
        /\ summary.repos_ingested = Len(written)
        /\ summary.repos = written

\* C3: _mine_pr_comments never processes more than 100 pull requests, and
\* when it returns after going through the listing, total_prs_analyzed is
\* the number of pull requests scanned and total_comments_analyzed the number
\* of comments scanned, whichever per-PR comment fetches failed.
C3_CountersEqualScanned ==
    /\ analyzed_count <= PR_LIMIT
    /\ scanned_prs <= PR_LIMIT
    /\ (pr_pc = "returned" /\ ~paging_failed) =>
          /\ intelligence.total_prs_analyzed = scanned_prs
          /\ intelligence.total_comments_analyzed = scanned_comments

\* C4: when the listing fails after k pull requests were scanned, the call
\* returns and the record's PR and comment counters are those of the k pull
\* requests scanned before the failure.
C4_PartialCountersAfterPagingFailure ==
    (pr_pc = "returned" /\ paging_failed /\ fetch_failures = 0) =>
        /\ intelligence.total_prs_analyzed = scanned_prs
        /\ intelligence.total_comments_analyzed = scanned_comments

\* The comments of a sequence that hold a phrase of the category, each mapped
\* to the first phrase of the category (in declaration order) it holds.
HoldsPhrase(cat, comment) ==
    \E k \in 1..Len(PatternsOf(cat)) : Contains(PatternsOf(cat)[k], BodyOf(comment))

FirstPhrase(cat, comment) ==
    LET P == PatternsOf(cat)
        k == CHOOSE i \in 1..Len(P) :
                /\ Contains(P[i], BodyOf(comment))
                /\ \A j \in 1..(i - 1) : ~Contains(P[j], BodyOf(comment))
    IN  P[k]

ExpectedPatterns(cat, comments) ==
    LET hits == SelectSeq(comments, LAMBDA c : HoldsPhrase(cat, c))
    IN  [i \in 1..Len(hits) |-> FirstPhrase(cat, hits[i])]

SignalPatterns(signals) == [i \in 1..Len(signals) |-> signals[i].pattern]

\* C5: in each category, every scanned comment adds exactly one Signal when
\* its lower-cased body holds at least one phrase of the category, with the
\* first such phrase in declaration order as pattern, and none otherwise (a
\* null or empty body holds none); comments that were not scanned add none.
C5_OneSignalPerMatchingComment ==
    [][(pr_pc = "body" /\ pr_pc' = "iter") =>
         \A cat \in Categories :
            SignalPatterns(intelligence'[cat]) =
                SignalPatterns(intelligence[cat]) \o
                    (IF cur.fails = "none"
                     THEN ExpectedPatterns(cat, cur.issue_comments \o cur.review_comments)
                     ELSE <<>>)]_vars

\* A comment holding two confusion phrases and a null comment were scanned,
\* and there is one confusion Signal, with the earlier-declared phrase.
C5_Witness ==
    /\ pr_pc = "iter"
    /\ scanned_comments = 2
    /\ cur.issue_comments = <<ConfusedComment>>
    /\ cur.review_comments = <<NullComment>>
    /\ Len(intelligence.confusion_signals) = 1
    /\ intelligence.confusion_signals[1].pattern = "why does"
    /\ Contains("confused", intelligence.confusion_signals[1].snippet)
    /\ intelligence.tech_debt_acknowledgments = <<>>

HasInsight(insights, issue, severity) ==
    \E i \in 1..Len(insights) :
        insights[i].issue = issue /\ insights[i].severity = severity

CountInsight(insights, issue) ==
    Cardinality({i \in 1..Len(insights) : insights[i].issue = issue})

CommitsAnalysed == cm_pc = "returned" /\ ~cm_raised /\ commits_n > 0

\* C6: for every non-empty commit sequence of at most 200 commits, the
\* high_revert_rate insight (severity high) is emitted iff reverts / total is
\* strictly greater than 3/100; at exactly 3% it is not emitted.
C6_RevertRateStrictlyAboveThreePercent ==
    CommitsAnalysed =>
        /\ commits_n <= COMMIT_LIMIT
        /\ HasInsight(patterns.insights, "high_revert_rate", "high")
              <=> 100 * seen.reverts > 3 * commits_n
        /\ CountInsight(patterns.insights, "high_revert_rate") <= 1

\* 6 reverts in the 200 commits analysed of a longer history: no insight.
C6_Witness ==
    /\ CommitsAnalysed
    /\ history.length > COMMIT_LIMIT
    /\ commits_n = 200
    /\ seen.reverts = 6
    /\ Len(patterns.revert_commits) = 6
    /\ ~HasInsight(patterns.insights, "high_revert_rate", "high")

\* C7: with zero commits the function returns no insight and every statistic
\* zero or empty.
C7_NoCommitsNoInsights ==
    (cm_pc = "returned" /\ ~cm_raised /\ history.length = 0) =>
        /\ patterns.insights = <<>>
        /\ patterns.total_commits = 0
        /\ DOMAIN patterns.commit_times.weekday = {}
        /\ DOMAIN patterns.commit_times.hour = {}
        /\ patterns.revert_commits = <<>>
        /\ patterns.friday_deploys = 0
        /\ patterns.weekend_activity = 0
        /\ patterns.avg_commit_message_length.num = 0

C7_Witness ==
    /\ cm_pc = "returned"
    /\ ~cm_raised
    /\ history.length = 0
    /\ patterns.insights = <<>>

\* C8: for every non-empty commit sequence the four rules are independent:
\* the insight list holds high_revert_rate (high) iff the revert fraction is
\* above 3%, friday_deploy_avoidance (medium) iff the Friday fraction is below
\* 5%, weekend_work (medium) iff the weekend fraction is above 15%, and
\* poor_commit_messages (low) iff the mean message length is below 20, each
\* at most once and nothing else.
C8_FourIndependentRules ==
    CommitsAnalysed =>
        LET ins == patterns.insights
            revert == 100 * seen.reverts > 3 * commits_n
            friday == 100 * seen.fridays < 5 * commits_n
            weekend == 100 * seen.weekend > 15 * commits_n
            short == seen.length_sum < 20 * commits_n
            N(b) == IF b THEN 1 ELSE 0
        IN  /\ HasInsight(ins, "high_revert_rate", "high") <=> revert
            /\ HasInsight(ins, "friday_deploy_avoidance", "medium") <=> friday
            /\ HasInsight(ins, "weekend_work", "medium") <=> weekend
            /\ HasInsight(ins, "poor_commit_messages", "low") <=> short
            /\ Len(ins) = N(revert) + N(friday) + N(weekend) + N(short)

\* All four rules fire together on one history.
C8_Witness ==
    /\ CommitsAnalysed
    /\ Len(patterns.insights) = 4
    /\ seen.reverts > 0
    /\ seen.fridays = 0

ExpectedEnvComplexity(n) ==
    CASE n < 5 -> "low"
      [] 5 <= n /\ n < 15 -> "medium"
      [] n >= 15 -> "high"

\* C9: with n the number of non-comment KEY=VALUE lines of the env template,
\* complexity is low iff n < 5, medium iff 5 <= n < 15, high iff n >= 15, and
\* the high_config_complexity insight is emitted iff n >= 15.
C9_EnvComplexityThresholds ==
    /\ (env_pc \in {"returned", "done"} /\ env_result.exists) =>
          /\ env_result.total_vars = kv_lines
          /\ env_result.complexity = ExpectedEnvComplexity(kv_lines)
    /\ env_pc = "done" =>
          /\ HasInsight(shadow_insights, "high_config_complexity", "medium")
                <=> (env_result.exists /\ kv_lines >= 15)
          /\ CountInsight(shadow_insights, "high_config_complexity") <= 1

\* A template of exactly 15 KEY=VALUE lines (and one other line): high, with
\* the insight.
C9_Witness ==
    /\ env_pc = "done"
    /\ env_result.exists
    /\ kv_lines = 15
    /\ lines_read = 16
    /\ env_result.complexity = "high"
    /\ HasInsight(shadow_insights, "high_config_complexity", "medium")

\* C10: with s the number of distinct service names collected over the
\* candidate compose files, complexity is low iff s <= 2, medium iff
\* 3 <= s <= 4, high iff s >= 5.
C10_ComposeComplexityThresholds ==
    dc_pc = "returned" =>
        LET s == Cardinality({dc.services[i] : i \in 1..Len(dc.services)})
        IN  /\ dc_result.service_count = s
            /\ dc_result.complexity = "low" <=> s <= 2
            /\ dc_result.complexity = "medium" <=> (3 <= s /\ s <= 4)
            /\ dc_result.complexity = "high" <=> s >= 5

\* Five distinct services, collected over more than one file: high.
C10_Witness ==
    /\ dc_pc = "returned"
    /\ dc_result.services = <<"web", "db", "redis", "worker", "kafka">>
    /\ dc_result.service_count = 5
    /\ dc_result.complexity = "high"

\* C11: a repository whose Makefile contains the target `deploy:` and which
\* has no other signal yields exactly one insight: category "deployment",
\* issue "manual_deployment_detected", severity medium.
C11_DeployTargetAloneOneInsight ==
    (mk_pc = "done" /\ mk_result.exists /\ InList(DeployLine, mk_lines)) =>
        /\ Len(mk_insights) = 1
        /\ mk_insights[1].category = "deployment"
        /\ mk_insights[1].issue = "manual_deployment_detected"
        /\ mk_insights[1].severity = "medium"

\* The target `deploy:` followed by another target and a command.
C11_Witness ==
    /\ mk_pc = "done"
    /\ mk_lines = <<DeployLine, BuildLine, DockerCommandLine>>
    /\ mk_result.targets = <<"deploy", "build">>
    /\ mk_result.uses_docker
    /\ Len(mk_insights) = 1

\* C12: each line API_SECRET_DONT_CHANGE=x of the env template gives one
\* red-flag entry, API_SECRET_DONT_CHANGE (matched on the lower-cased key), so
\* a template with the line yields exactly one entry; config_red_flags
\* (severity high) is emitted, once, iff the red-flag list is non-empty, and
\* its description holds every flagged name.
C12_RedFlagEntryAndInsight ==
    /\ (env_pc \in {"returned", "done"} /\ env_result.exists) =>
          env_result.red_flags = [i \in 1..flag_lines |-> "API_SECRET_DONT_CHANGE"]
    /\ env_pc = "done" =>
          /\ HasInsight(shadow_insights, "config_red_flags", "high")
                <=> (env_result.exists /\ flag_lines > 0)
          /\ CountInsight(shadow_insights, "config_red_flags") <= 1
          /\ \A i \in 1..Len(shadow_insights) :
                shadow_insights[i].issue = "config_red_flags" =>
                    \A k \in 1..Len(env_result.red_flags) :
                        Contains(env_result.red_flags[k], shadow_insights[i].description)

\* A template with the line once, among other KEY=VALUE lines.
C12_Witness ==
    /\ env_pc = "done"
    /\ flag_lines = 1
    /\ kv_lines = 3
    /\ env_result.red_flags = <<"API_SECRET_DONT_CHANGE">>
    /\ \E i \in 1..Len(shadow_insights) :
          /\ shadow_insights[i].issue = "config_red_flags"
          /\ shadow_insights[i].severity = "high"
          /\ shadow_insights[i].description = "Suspicious env vars: API_SECRET_DONT_CHANGE"

RuleIssues ==
    <<"manual_deployment_detected", "slow_tests", "postinstall_patches",
      "high_config_complexity", "config_red_flags", "workaround_scripts_found",
      "complex_local_dev">>

RECURSIVE IssuesThatHold(_, _)
IssuesThatHold(conds, i) ==
    IF i > Len(RuleIssues) THEN <<>>
    ELSE (IF conds[i] THEN <<RuleIssues[i]>> ELSE <<>>) \o IssuesThatHold(conds, i + 1)

\* C13: for every combination of the seven rule conditions the synthesizer
\* emits exactly the insights whose condition holds, each once, in the order
\* manual_deployment_detected, slow_tests, postinstall_patches,
\* high_config_complexity, config_red_flags, workaround_scripts_found,
\* complex_local_dev, the last one iff the compose service count is above 3.
C13_AllApplicableInsightsInOrder ==
    sh_pc = "done" =>
        /\ [i \in 1..Len(sh_insights) |-> sh_insights[i].issue]
              = IssuesThatHold(sh_conds, 1)
        /\ HasInsight(sh_insights, "complex_local_dev", "medium")
              <=> Get(shadow_arg.docker_compose_stack, "service_count", 0) > 3

\* All seven conditions hold: seven insights.
C13_Witness ==
    /\ sh_pc = "done"
    /\ \A i \in 1..7 : sh_conds[i]
    /\ Len(sh_insights) = 7
    /\ shadow_arg.docker_compose_stack.service_count = 4

\* The runs fetched for workflow i that have both timestamps, and their
\* durations summed.
TimedRuns(i) ==
    {k \in 1..Len(ci_fetched[i].runs) :
        /\ ci_fetched[i].runs[k].created_at # <<>>
        /\ ci_fetched[i].runs[k].updated_at # <<>>}

RECURSIVE TotalDuration(_, _)
TotalDuration(i, k) ==
    IF k > Len(ci_fetched[i].runs) THEN 0
    ELSE (IF k \in TimedRuns(i)
          THEN ci_fetched[i].runs[k].updated_at[1] - ci_fetched[i].runs[k].created_at[1]
          ELSE 0) + TotalDuration(i, k + 1)

FailedRuns(i) ==
    {k \in 1..Len(ci_fetched[i].runs) : ci_fetched[i].runs[k].conclusion = "failure"}

\* An insight `issue` is emitted for workflow i (its description names it).
EmittedFor(i, issue, severity) ==
    \E k \in 1..Len(ci_analysis.insights) :
        /\ ci_analysis.insights[k].issue = issue
        /\ ci_analysis.insights[k].severity = severity
        /\ StartsWith(ci_analysis.insights[k].description, WorkflowName(i) \o ": ")

\* C14: a workflow whose fetched runs all lack a created or an updated
\* timestamp, or which has no runs, gets no avg_duration_seconds and no
\* avg_duration_minutes, and no slow_ci_workflow insight, whatever the other
\* workflows are.
C14_NoTimedRunsNoDurationStatistic ==
    \A i \in 1..Len(ci_analysis.workflows) :
        TimedRuns(i) = {} =>
            /\ "avg_duration_seconds" \notin DOMAIN ci_analysis.workflows[i]
            /\ "avg_duration_minutes" \notin DOMAIN ci_analysis.workflows[i]
            /\ ci_pc = "returned" => ~EmittedFor(i, "slow_ci_workflow", "medium")

\* A workflow with runs but no duration next to a slow one.
C14_Witness ==
    /\ ci_pc = "returned"
    /\ Len(ci_analysis.workflows) >= 2
    /\ ci_fetched[1].runs = <<Run906, Run906>>
    /\ ci_fetched[2].runs = <<FailedRunNoTimes, RunInProgress>>
    /\ EmittedFor(1, "slow_ci_workflow", "medium")
    /\ ~EmittedFor(2, "slow_ci_workflow", "medium")

\* C15: slow_ci_workflow (medium) is emitted for a workflow iff the average
\* duration of its runs that have both timestamps is strictly above 900
\* seconds, averages of 901 or 902 seconds included.
C15_SlowAboveFifteenMinutes ==
    ci_pc = "returned" =>
        \A i \in 1..Len(ci_analysis.workflows) :
            EmittedFor(i, "slow_ci_workflow", "medium")
                <=> (/\ TimedRuns(i) # {}
                     /\ TotalDuration(i, 1) > 900 * Cardinality(TimedRuns(i)))

\* C16: flaky_ci_workflow (high) is emitted for a workflow iff failures /
\* fetched runs is strictly above 20%, failures being the runs with
\* conclusion 'failure' among the at most 10 runs fetched, runs without
\* timestamps included.
C16_FlakyAboveTwentyPercent ==
    /\ \A i \in 1..Len(ci_fetched) : Len(ci_fetched[i].runs) <= 10
    /\ ci_pc = "returned" =>
          \A i \in 1..Len(ci_analysis.workflows) :
              EmittedFor(i, "flaky_ci_workflow", "high")
                  <=> 5 * Cardinality(FailedRuns(i)) > Len(ci_fetched[i].runs)

\* Two failures in ten runs, both without timestamps: no insight.
C16_Witness ==
    /\ ci_pc = "returned"
    /\ Len(ci_fetched) = 1
    /\ Len(ci_fetched[1].runs) = 10
    /\ Cardinality(FailedRuns(1)) = 2
    /\ TimedRuns(1) \cap FailedRuns(1) = {}
    /\ ~EmittedFor(1, "flaky_ci_workflow", "high")

\* The Signals recorded for keyword k.
SignalsOf(k) ==
    {j \in 1..Len(fear.sacred_cows) : fear.sacred_cows[j].keyword = fear_keywords[k]}

\* C17: a search failure for a keyword is swallowed: that keyword contributes
\* no Signal, the Signals of the keywords before it are kept, every keyword
\* after it is still searched, and total_fear_signals and the insight rule
\* are computed over what was collected.
C17_SearchFailureSwallowed ==
    /\ \A k \in 1..(kw_idx - 1) :
          Cardinality(SignalsOf(k)) =
              (IF k \in fear_source.fails THEN 0 ELSE Min(fear_source.hits[k], 10))
    /\ fear_pc = "returned" =>
          /\ searched = [k \in 1..Len(fear_keywords) |-> k]
          /\ kw_idx = Len(fear_keywords) + 1
          /\ fear.total_fear_signals = Len(fear.sacred_cows)
          /\ HasInsight(fear.insights, "high_fear_signals", "high")
                <=> Len(fear.sacred_cows) > 5

\* The search for the second keyword fails, hits before and after it.
C17_Witness ==
    /\ fear_pc = "returned"
    /\ fear_source.fails = {2}
    /\ fear_source.hits[2] > 0
    /\ SignalsOf(1) # {}
    /\ SignalsOf(2) = {}
    /\ SignalsOf(3) # {}
    /\ fear.total_fear_signals = 90
    /\ HasInsight(fear.insights, "high_fear_signals", "high")

\* C18: at most 10 hits are recorded per keyword, so at most 100 Signals;
\* total_fear_signals equals the number of Signals recorded; and
\* high_fear_signals (high) is emitted iff total_fear_signals > 5.
C18_HitCapAndFearThreshold ==
    /\ \A k \in 1..Len(fear_keywords) : Cardinality(SignalsOf(k)) <= 10
    /\ Len(fear.sacred_cows) <= 100
    /\ fear_pc = "returned" =>
          /\ fear.total_fear_signals = Len(fear.sacred_cows)
          /\ HasInsight(fear.insights, "high_fear_signals", "high")
                <=> fear.total_fear_signals > 5
          /\ CountInsight(fear.insights, "high_fear_signals") <= 1

\* Exactly five hits over two keywords: no insight.
C18_Witness ==
    /\ fear_pc = "returned"
    /\ fear_source.fails = {}
    /\ fear.total_fear_signals = 5
    /\ Cardinality(SignalsOf(1)) = 3
    /\ fear.insights = <<>>

\* ingest_org left through its except clause before the loop was entered
\* (idx is set when the loop starts).
OrgFetchFailed == pc \in {"summary", "done"} /\ idx = 0

\* C19: when the organization lookup or the repository listing fails,
\* ingest_org returns an empty list: no repository is processed, no document
\* is written, and the summary reports zero repositories.
C19_OrgFailureEmptyRun ==
    OrgFetchFailed =>
        /\ returned = <<>>
        /\ results = <<>>
        /\ written = <<>>
        /\ pc = "done" => (summary.repos_ingested = 0 /\ summary.repos = <<>>)

\* The run has finished after a failed lookup.
C19_Witness ==
    /\ pc = "done"
    /\ OrgFetchFailed
    /\ token
    /\ summary = [repos_ingested |-> 0, repos |-> <<>>]

AllSignals ==
    intelligence.confusion_signals \o intelligence.tech_debt_acknowledgments
        \o intelligence.fragility_mentions

\* C20: every Signal appended to confusion_signals,
\* tech_debt_acknowledgments or fragility_mentions has a snippet of at most
\* 200 characters, whatever the length of the comment body.
C20_SnippetAtMostTwoHundred ==
    \A i \in 1..Len(AllSignals) : Len(AllSignals[i].snippet) <= 200

\* A comment of 206 characters has been scanned: its Signal holds the first 200.
C20_Witness ==
    /\ pr_pc = "iter"
    /\ scanned_prs = 1
    /\ cur.issue_comments = <<LongDebtComment>>
    /\ Len(LongDebtComment.body) = 206
    /\ Len(intelligence.tech_debt_acknowledgments) = 1
    /\ intelligence.tech_debt_acknowledgments[1].pattern = "fixme"
    /\ intelligence.tech_debt_acknowledgments[1].snippet
          = "fixme " \o Repeat("x", 194)

MatchedPatterns == {AllSignals[i].pattern : i \in 1..Len(AllSignals)}

SignalsWith(p) == Cardinality({i \in 1..Len(AllSignals) : AllSignals[i].pattern = p})

TopicPatterns ==
    {intelligence.common_discussion_topics[k].pattern :
        k \in 1..Len(intelligence.common_discussion_topics)}

\* C21: after a complete mining pass common_discussion_topics holds one
\* {pattern, count} entry per distinct matched pattern of the three categories
\* together, count being the number of Signals with that pattern, in
\* non-increasing order of count, cut to the 10 entries of highest count.
C21_TopicsCountedSortedTopTen ==
    (pr_pc = "returned" /\ ~paging_failed) =>
        LET topics == intelligence.common_discussion_topics
        IN  /\ \A k \in 1..Len(topics) :
                  /\ topics[k].pattern \in MatchedPatterns
                  /\ topics[k].count = SignalsWith(topics[k].pattern)
            /\ \A j, k \in 1..Len(topics) :
                  /\ (j # k => topics[j].pattern # topics[k].pattern)
                  /\ (j < k => topics[j].count >= topics[k].count)
            /\ Len(topics) = Min(Cardinality(MatchedPatterns), 10)
            /\ \A p \in MatchedPatterns \ TopicPatterns :
                  \A k \in 1..Len(topics) : SignalsWith(p) <= topics[k].count

\* Twelve distinct patterns matched, the twelfth to appear matched twice: it
\* is among the ten entries kept, and two patterns matched once are dropped.
C21_Witness ==
    /\ pr_pc = "returned"
    /\ ~paging_failed
    /\ Cardinality(MatchedPatterns) = 12
    /\ SignalsWith("flaky") = 2
    /\ Len(intelligence.common_discussion_topics) = 10
    /\ "flaky" \in TopicPatterns
    /\ \E p \in MatchedPatterns \ TopicPatterns : SignalsWith(p) = 1

RecordedCommands ==
    UNION {{mk_result.commands[i].value[j] : j \in 1..Len(mk_result.commands[i].value)} :
              i \in 1..Len(mk_result.commands)}

TargetNamed(word) ==
    \E i \in 1..Len(mk_result.targets) : Contains(word, mk_result.targets[i])

\* C22: _parse_makefile gives uses_docker true iff the text of at least one
\* recorded command contains "docker" (a target named docker-build with no
\* docker command gives false), and has_deploy_target / has_test_target true
\* iff some target name contains "deploy" / "test".
C22_DockerFromCommandsOnly ==
    (mk_pc = "returned" /\ mk_result.exists) =>
        /\ mk_result.uses_docker <=> (\E cmd \in RecordedCommands : Contains("docker", cmd))
        /\ mk_result.has_deploy_target <=> TargetNamed("deploy")
        /\ mk_result.has_test_target <=> TargetNamed("test")

ScriptNamed(word) == \E i \in 1..Len(pkg_scripts) : Contains(word, pkg_scripts[i].key)

\* C23: _parse_package_json_scripts decides every flag by substring match on
\* the declared script names: has_fast_test iff some name contains a fast or
\* quick test variant (test:fast, test:quick), postinstall_hook iff some name
\* contains "postinstall", has_debug_mode / has_docker_scripts /
\* has_deploy_scripts iff some name contains "debug" / "docker" / "deploy".
C23_FlagsBySubstringOfScriptName ==
    (pkg_pc = "returned" /\ pkg_result.exists) =>
        /\ pkg_result.has_fast_test <=> (ScriptNamed("test:fast") \/ ScriptNamed("test:quick"))
        /\ pkg_result.postinstall_hook <=> ScriptNamed("postinstall")
        /\ pkg_result.has_debug_mode <=> ScriptNamed("debug")
        /\ pkg_result.has_docker_scripts <=> ScriptNamed("docker")
        /\ pkg_result.has_deploy_scripts <=> ScriptNamed("deploy")

\* sum(d.values())
RECURSIVE SumValues(_)
SumValues(d) ==
    IF DOMAIN d = {} THEN 0
    ELSE LET k == CHOOSE x \in DOMAIN d : TRUE
         IN  d[k] + SumValues([x \in DOMAIN d \ {k} |-> d[x]])

\* d.get(k, 0)
CountAt(d, k) == IF k \in DOMAIN d THEN d[k] ELSE 0

\* C24: whenever _analyze_commit_patterns returns, also when an API error
\* interrupted the pass over the commits, the weekday histogram and the hour
\* histogram each sum to total_commits, friday_deploys is the histogram's
\* Friday count, weekend_activity its Saturday plus Sunday counts, and the
\* number of revert_commits is at most total_commits, itself at most 200.
C24_StatisticsConsistentAtReturn ==
    cm_pc = "returned" =>
        /\ SumValues(patterns.commit_times.weekday) = patterns.total_commits
        /\ SumValues(patterns.commit_times.hour) = patterns.total_commits
        /\ patterns.friday_deploys = CountAt(patterns.commit_times.weekday, "Friday")
        /\ patterns.weekend_activity =
              CountAt(patterns.commit_times.weekday, "Saturday")
                + CountAt(patterns.commit_times.weekday, "Sunday")
        /\ Len(patterns.revert_commits) <= patterns.total_commits
        /\ patterns.total_commits <= 200

====
